---------------------------- MODULE Spec2Model ----------------------------
(***************************************************************************)
(* A model of the Bitcoin news summary system: the Airflow DAG             *)
(* (src/dags/bitcoin_news_summary_dag.py), the tool dispatchers            *)
(* (src/dags/news_tool.py, src/dags/weather_tool.py) and the tool provider *)
(* server (src/mcp_server.py).                                             *)
(*                                                                         *)
(* Python strings are sequences of one-character strings.  Cyrillic        *)
(* letters are written by name ("cyr_o" is the small letter o, "CYR_O" the *)
(* capital one) because the module is ASCII.  A Python dict is a record    *)
(* whose DOMAIN is the set of keys the dict holds.                         *)
(***************************************************************************)
EXTENDS Integers, Sequences, FiniteSets, TLC

(***************************************************************************)
(* Bounds of the model.                                                    *)
(***************************************************************************)
\* longest final text, in words of Vocabulary, explored by FilterSpec
MaxTextLen == 2
\* most tool calls one model reply carries
MaxToolCalls == 2
\* most articles the upstream news API returns
MaxArticles == 3
\* the longest sequence of registrations made on one tool list
MaxRegistrations == 3
\* most connections the clients open to the tool server
MaxConnections == 3

(***************************************************************************)
(* Python str: characters, lower(), strip(), the `in` substring test.      *)
(***************************************************************************)
UpperChars == <<"A", "B", "C", "D", "E", "F", "G", "H", "I", "J", "K", "L", "M",
                "N", "O", "P", "Q", "R", "S", "T", "U", "V", "W", "X", "Y", "Z",
                "CYR_O", "CYR_P", "CYR_N">>
LowerChars == <<"a", "b", "c", "d", "e", "f", "g", "h", "i", "j", "k", "l", "m",
                "n", "o", "p", "q", "r", "s", "t", "u", "v", "w", "x", "y", "z",
                "cyr_o", "cyr_p", "cyr_n">>

\* str.lower() on one character
LowerChar(c) ==
    IF \E i \in 1..Len(UpperChars) : UpperChars[i] = c
    THEN LowerChars[CHOOSE i \in 1..Len(UpperChars) : UpperChars[i] = c]
    ELSE c

\* str.lower()
Lower(s) == [i \in 1..Len(s) |-> LowerChar(s[i])]

\* the characters str.strip() removes
Whitespace == {" ", "\n", "\t", "\r"}

\* str.strip(): drops the leading and the trailing whitespace
Strip(s) ==
    IF \A i \in 1..Len(s) : s[i] \in Whitespace
    THEN <<>>
    ELSE LET first == CHOOSE i \in 1..Len(s) :
                          /\ s[i] \notin Whitespace
                          /\ \A j \in 1..(i - 1) : s[j] \in Whitespace
             last  == CHOOSE i \in 1..Len(s) :
                          /\ s[i] \notin Whitespace
                          /\ \A j \in (i + 1)..Len(s) : s[j] \in Whitespace
         IN  SubSeq(s, first, last)

\* Python `t in s` on strings
Contains(s, t) ==
    \E i \in 1..(Len(s) - Len(t) + 1) : SubSeq(s, i, i + Len(t) - 1) = t

\* A value that may be None: Python's `x` is NoneValue or Some(text)
NoneValue == [isNone |-> TRUE, s |-> <<>>]
Some(s) == [isNone |-> FALSE, s |-> s]

\* Python truthiness of an Optional[str]: `not x`
Falsy(x) == x.isNone \/ Len(x.s) = 0

\* str(x) of an Optional[str]
PyStr(x) == IF x.isNone THEN <<"N", "o", "n", "e">> ELSE x.s

(***************************************************************************)
(* The failure markers of the two error-content checks.                    *)
(***************************************************************************)
S_oshibka == <<"cyr_o", "cyr_sh", "cyr_i", "cyr_b", "cyr_k", "cyr_a">>
S_oshibka_pri == S_oshibka \o <<" ", "cyr_p", "cyr_r", "cyr_i">>
S_error == <<"e", "r", "r", "o", "r">>
S_ne_udalos == <<"cyr_n", "cyr_e", " ", "cyr_u", "cyr_d", "cyr_a", "cyr_l",
                 "cyr_o", "cyr_s", "cyr_soft">>
S_ne_udalos_sozdat == S_ne_udalos \o <<" ", "cyr_s", "cyr_o", "cyr_z", "cyr_d",
                                       "cyr_a", "cyr_t", "cyr_soft">>
S_failed == <<"f", "a", "i", "l", "e", "d">>
S_cant_decode == <<"C", "a", "n", "'", "t", " ", "d", "e", "c", "o", "d", "e">>
S_Authorization == <<"A", "u", "t", "h", "o", "r", "i", "z", "a", "t", "i", "o", "n">>
S_400 == <<"4", "0", "0">>
S_401 == <<"4", "0", "1">>
S_403 == <<"4", "0", "3">>
S_500 == <<"5", "0", "0">>

\* error_indicators of summarize_news_with_gigachat
error_indicators ==
    {S_oshibka, S_error, S_ne_udalos, S_failed, S_cant_decode, S_Authorization,
     S_400, S_401, S_403, S_500}

\* error_indicators of prepare_email_content
email_error_indicators ==
    {S_oshibka_pri, S_error, S_ne_udalos_sozdat, S_failed, S_cant_decode,
     S_Authorization, S_400, S_401}

\* `if not summary or not summary.strip()`
IsEmptySummary(summary) == Falsy(summary) \/ Len(Strip(summary.s)) = 0

\* A faulty variant of SummaryRejected: the inner confirmation is dropped and
\* every outer indicator rejects.
SummaryRejectedAnyIndicator(s) ==
    \E ind \in error_indicators : Contains(Lower(s), ind)

\* The two nested tests of summarize_news_with_gigachat on a non-empty text:
\* the outer `any(indicator in summary_lower ...)` and the inner confirmation
SummaryRejected(s) ==
    /\ \E ind \in error_indicators : Contains(Lower(s), ind)
    /\ \/ Contains(Lower(s), S_oshibka_pri)
       \/ Contains(Lower(s), S_error)
       \/ Contains(s, S_400)
       \/ Contains(s, S_401)

\* The test of prepare_email_content on a non-empty text
EmailRejected(s) ==
    \E ind \in email_error_indicators : Contains(Lower(s), ind)

(***************************************************************************)
(* The texts the model draws from: sequences of words.                     *)
(***************************************************************************)
W_btc == <<"B", "T", "C">>
W_space == <<" ">>
W_Error == <<"E", "r", "r", "o", "R">>
W_400 == <<"4", "0", "0">>
W_401 == <<"4", "0", "1">>
W_Oshibka == <<"CYR_O", "cyr_sh", "cyr_i", "cyr_b", "cyr_k", "cyr_a">>
W_pri == <<" ", "CYR_P", "cyr_r", "cyr_i">>
W_failed == <<"F", "a", "i", "l", "e", "d">>
W_403 == <<"4", "0", "3">>

Vocabulary == {W_btc, W_space, W_Error, W_400, W_401, W_Oshibka, W_pri,
               W_failed, W_403}

RECURSIVE TextsOfLen(_)
TextsOfLen(n) ==
    IF n = 0 THEN {<<>>}
    ELSE {w \o t : w \in Vocabulary, t \in TextsOfLen(n - 1)}

\* every text of at most n words
TextsUpTo(n) == UNION {TextsOfLen(k) : k \in 0..n}

(***************************************************************************)
(* JSON values of the upstream APIs and of the requests.                   *)
(*                                                                         *)
(* An upstream reply is a record                                           *)
(*   [kind, status, text, body, jsonErrorIsRequestException]               *)
(* kind: "timeout", "connection_error", "request_exception" (requests.get  *)
(* raised) or "response"; text is response.text; body tells what           *)
(* response.json() yields.  requests raises its own JSONDecodeError (a     *)
(* RequestException) from version 2.27 on and a plain ValueError before:   *)
(* jsonErrorIsRequestException says which library is installed.            *)
(***************************************************************************)
NoBody == [json |-> "invalid"]

\* the articles of the upstream news API: an object with or without `title`,
\* null, or a string that does or does not contain the word title
Articles ==
    {[kind |-> "dict", hasTitle |-> TRUE, title |-> "A"],
     [kind |-> "dict", hasTitle |-> TRUE, title |-> "B"],
     [kind |-> "dict", hasTitle |-> FALSE, title |-> ""],
     [kind |-> "null", hasTitle |-> FALSE, title |-> ""],
     [kind |-> "str", hasTitle |-> TRUE, title |-> ""],
     [kind |-> "str", hasTitle |-> FALSE, title |-> ""]}

RECURSIVE SeqsOfLen(_, _)
SeqsOfLen(S, n) ==
    IF n = 0 THEN {<<>>}
    ELSE {<<x>> \o t : x \in S, t \in SeqsOfLen(S, n - 1)}

SeqsUpTo(S, n) == UNION {SeqsOfLen(S, k) : k \in 0..n}

\* bodies of the upstream news API: not JSON, a JSON list, an object without
\* `results`, an object whose `results` is no list, an object with articles
NewsBodies ==
    {NoBody, [json |-> "list"],
     [json |-> "dict", hasResults |-> FALSE, resultsIsList |-> FALSE, results |-> <<>>],
     [json |-> "dict", hasResults |-> TRUE, resultsIsList |-> FALSE, results |-> <<>>]}
    \cup {[json |-> "dict", hasResults |-> TRUE, resultsIsList |-> TRUE, results |-> r] :
              r \in SeqsUpTo(Articles, MaxArticles)}

UpstreamFailures ==
    {[kind |-> k, status |-> 0, text |-> "", body |-> NoBody,
      jsonErrorIsRequestException |-> TRUE] :
         k \in {"timeout", "connection_error", "request_exception"}}

NewsUpstreamReplies ==
    UpstreamFailures
    \cup {[kind |-> "response", status |-> st, text |-> tx, body |-> NoBody,
           jsonErrorIsRequestException |-> TRUE] :
              st \in {404, 500}, tx \in {"", "upstream says no"}}
    \cup {[kind |-> "response", status |-> 200, text |-> "", body |-> b,
           jsonErrorIsRequestException |-> TRUE] : b \in NewsBodies}
    \cup {[kind |-> "response", status |-> 200, text |-> "", body |-> NoBody,
           jsonErrorIsRequestException |-> FALSE]}

(***************************************************************************)
(* src/mcp_server.py: _handle_news_request.                                *)
(***************************************************************************)
\* A faulty variant of ExtractTitles: an article that is no object is skipped
\* and the titles of the others are returned.
ExtractTitlesSkippingMalformed(results) ==
    LET titled == SelectSeq(results, LAMBDA a : a.kind = "dict" /\ a.hasTitle)
    IN  [raised |-> FALSE, titles |-> [i \in 1..Len(titled) |-> titled[i].title]]

\* A faulty variant of ExtractTitles: an article without a title is not
\* skipped, it counts with an empty title.
ExtractTitlesKeepingAll(results) ==
    [raised |-> FALSE, titles |-> [i \in 1..Len(results) |-> results[i].title]]

RECURSIVE ExtractTitles(_)
\* the loop over news_data["results"]: the titles collected, or the TypeError
\* an article that is no object raises
ExtractTitles(results) ==
    IF results = <<>> THEN [raised |-> FALSE, titles |-> <<>>]
    ELSE LET article == Head(results)
             rest == ExtractTitles(Tail(results))
         IN  CASE article.kind = "null" -> [raised |-> TRUE, titles |-> <<>>]
               [] article.kind = "str" /\ article.hasTitle ->
                      [raised |-> TRUE, titles |-> <<>>]
               [] article.kind = "dict" /\ article.hasTitle ->
                      IF rest.raised THEN rest
                      ELSE [raised |-> FALSE, titles |-> <<article.title>> \o rest.titles]
               [] OTHER -> rest

\* The payload _handle_news_request returns for the upstream reply `up`,
\* given what the one requests.get call to NEWS_API_URL produced
NewsPayload(up) ==
    CASE up.kind = "timeout" ->
             [error |-> <<"Tajmaut pri zaprose k API novostej">>]
      [] up.kind = "connection_error" ->
             [error |-> <<"Oshibka soedineniya s API: ", "connection">>]
      [] up.kind = "request_exception" ->
             [error |-> <<"Oshibka seti: ", "request">>]
      [] up.kind = "response" /\ up.status # 200 ->
             [error |-> <<"Oshibka API novostej: status ", ToString(up.status)>>,
              details |-> IF up.text # "" THEN up.text ELSE "Unknown error"]
      [] up.kind = "response" /\ up.status = 200 /\ up.body.json = "invalid" ->
             IF up.jsonErrorIsRequestException
             THEN [error |-> <<"Oshibka seti: ", "json">>]
             ELSE [error |-> <<"Neozhidannaya oshibka: ", "json">>]
      [] up.kind = "response" /\ up.status = 200 /\ up.body.json = "list" ->
             \* news_data.get raises AttributeError outside the inner try
             [error |-> <<"Neozhidannaya oshibka: ", "AttributeError">>]
      [] OTHER ->
             LET got == IF up.body.hasResults /\ up.body.resultsIsList
                        THEN ExtractTitles(up.body.results)
                        ELSE [raised |-> FALSE, titles |-> <<>>]
             IN  IF got.raised
                 THEN [error |-> <<"Neozhidannyj format otveta ot API: ", "TypeError">>,
                       raw_response |-> up.body]
                 ELSE [titles |-> got.titles, total_count |-> Len(got.titles)]

\* A faulty variant of _handle_news_request: a failed upstream call is tried
\* again.
_handle_news_request_retrying(up) ==
    [payload |-> NewsPayload(up),
     upstreamCalls |-> IF up.kind = "response" THEN 1 ELSE 2]

\* _handle_news_request: the payload and the number of calls it made to the
\* upstream news API (one requests.get, in no loop)
_handle_news_request(up) ==
    [payload |-> NewsPayload(up), upstreamCalls |-> 1]

(***************************************************************************)
(* src/mcp_server.py: _handle_weather_request.                             *)
(*                                                                         *)
(* A coordinate as it reaches the handler is a Python value                *)
(*   [t, ok, n]: t = "none" (None), "num" (a number n), "str" (a string,   *)
(*   which float() parses to n when ok), "list" (the empty JSON list) or   *)
(*   "bigint" (a JSON integer too large for a float, such as 10^400; n     *)
(*   stands for it in comparisons).                                        *)
(***************************************************************************)
CoordNone == [t |-> "none", ok |-> FALSE, n |-> 0]
CoordNum(k) == [t |-> "num", ok |-> TRUE, n |-> k]
CoordStr(k) == [t |-> "str", ok |-> TRUE, n |-> k]
CoordText == [t |-> "str", ok |-> FALSE, n |-> 0]
CoordList == [t |-> "list", ok |-> FALSE, n |-> 0]
CoordHuge == [t |-> "bigint", ok |-> FALSE, n |-> 1000]

LatNumbers == {-91, -90, 55, 90, 91}
LonNumbers == {-181, -180, 37, 180, 181}

\* float(x) succeeds
FloatOk(x) == x.t = "num" \/ (x.t = "str" /\ x.ok)

\* float(x) raises OverflowError, which lines 219-224 do not catch
FloatOverflows(x) == x.t = "bigint"

\* an optional field value of the weather payload
NoVal == [isNone |-> TRUE, v |-> 0]
Val(k) == [isNone |-> FALSE, v |-> k]

\* the four fields an upstream `fact` or `day` object carries (dict.get of
\* each key: None when the key is absent)
NoFields == [temp |-> NoVal, condition |-> NoVal, wind_speed |-> NoVal, humidity |-> NoVal]
AllFields == [temp |-> Val(15), condition |-> Val(1), wind_speed |-> Val(5), humidity |-> Val(60)]
TempOnly == [temp |-> Val(-3), condition |-> NoVal, wind_speed |-> NoVal, humidity |-> NoVal]
FieldSets == {NoFields, AllFields, TempOnly}

\* weather_data['fact']: absent, {} , null, a non-object, an object
Facts ==
    {[p |-> k, vals |-> NoFields] : k \in {"absent", "empty", "null", "str"}}
    \cup {[p |-> "dict", vals |-> v] : v \in FieldSets}

\* weather_data['forecasts']: absent, [], [null], [{}], [{parts: {day: ...}}],
\* or an object instead of a list
Forecasts ==
    {[p |-> k, vals |-> NoFields] :
         k \in {"absent", "empty", "first_null", "first_empty", "dict"}}
    \cup {[p |-> "first_day", vals |-> v] : v \in {NoFields, AllFields}}

WeatherBodies ==
    {[json |-> "invalid"], [json |-> "list"]}
    \cup {[json |-> "dict", fact |-> f, forecasts |-> g] :
              f \in Facts, g \in Forecasts}

WeatherUpstreamReplies ==
    UpstreamFailures
    \cup {[kind |-> "response", status |-> st, text |-> tx, body |-> NoBody,
           jsonErrorIsRequestException |-> TRUE] :
              st \in {401, 403, 500}, tx \in {"", "upstream says no"}}
    \cup {[kind |-> "response", status |-> 200, text |-> "", body |-> b,
           jsonErrorIsRequestException |-> TRUE] : b \in WeatherBodies}
    \cup {[kind |-> "response", status |-> 200, text |-> "", body |-> NoBody,
           jsonErrorIsRequestException |-> FALSE]}

\* os.getenv('YANDEX_WEATHER_API_KEY'): unset, empty, blank, set
ApiKeys == {NoneValue, Some(<<>>), Some(<<" ", "\n">>), Some(<<"k", "e", "y">>)}

\* A faulty variant of WeatherSource: the fields are read from `fact` only.
WeatherSourceFactOnly(body) ==
    IF body.fact.p = "str"
    THEN [raised |-> TRUE, exc |-> "AttributeError", vals |-> NoFields]
    ELSE [raised |-> FALSE, exc |-> "", vals |-> body.fact.vals]

\* the extraction of lines 291-317: the object the four fields are read from,
\* or the exception the lookup raises
WeatherSource(body) ==
    IF body.fact.p = "dict" \/ body.fact.p = "str"
    THEN \* `fact` is truthy: no fallback; .get on a non-object raises
         IF body.fact.p = "str"
         THEN [raised |-> TRUE, exc |-> "AttributeError", vals |-> NoFields]
         ELSE [raised |-> FALSE, exc |-> "", vals |-> body.fact.vals]
    ELSE CASE body.forecasts.p \in {"absent", "empty", "first_empty"} ->
                  [raised |-> FALSE, exc |-> "", vals |-> NoFields]
           [] body.forecasts.p = "first_null" ->
                  [raised |-> TRUE, exc |-> "AttributeError", vals |-> NoFields]
           [] body.forecasts.p = "dict" ->
                  [raised |-> TRUE, exc |-> "KeyError", vals |-> NoFields]
           [] OTHER -> [raised |-> FALSE, exc |-> "", vals |-> body.forecasts.vals]

AllNone(vals) ==
    vals.temp.isNone /\ vals.condition.isNone /\ vals.wind_speed.isNone
        /\ vals.humidity.isNone

\* the payload of lines 247-333, for the reply `up` of the one requests.get
\* call to YANDEX_WEATHER_API_URL
WeatherUpstreamPayload(up) ==
    CASE up.kind = "timeout" ->
             [error |-> <<"Tajmaut pri zaprose k API Yandex.Pogody">>]
      [] up.kind = "connection_error" ->
             [error |-> <<"Oshibka soedineniya s API: ", "connection">>]
      [] up.kind = "request_exception" ->
             [error |-> <<"Oshibka seti: ", "request">>]
      [] up.kind = "response" /\ up.status = 403 ->
             [error |-> <<"Oshibka dostupa (403). Prover'te pravil'nost' API klyucha">>,
              details |-> IF up.text # "" THEN up.text ELSE "Forbidden"]
      [] up.kind = "response" /\ up.status = 401 ->
             [error |-> <<"Oshibka autentifikacii (401). Nevernyj API klyuch">>,
              details |-> IF up.text # "" THEN up.text ELSE "Unauthorized"]
      [] up.kind = "response" /\ up.status # 200 ->
             [error |-> <<"Oshibka API Yandex.Pogody: status ", ToString(up.status)>>,
              details |-> IF up.text # "" THEN up.text ELSE "Unknown error"]
      [] up.kind = "response" /\ up.status = 200 /\ up.body.json = "invalid" ->
             IF up.jsonErrorIsRequestException
             THEN [error |-> <<"Oshibka seti: ", "json">>]
             ELSE [error |-> <<"Neozhidannaya oshibka: ", "json">>]
      [] up.kind = "response" /\ up.status = 200 /\ up.body.json = "list" ->
             \* weather_data.get raises AttributeError inside the inner try
             [error |-> <<"Neozhidannyj format otveta ot API: ", "AttributeError">>,
              raw_response |-> up.body]
      [] OTHER ->
             LET src == WeatherSource(up.body)
             IN  IF src.raised
                 THEN [error |-> <<"Neozhidannyj format otveta ot API: ", src.exc>>,
                       raw_response |-> up.body]
                 ELSE IF AllNone(src.vals)
                 THEN [error |-> <<"Ne udalos' izvlech' dannye o pogode iz otveta API">>,
                       raw_response |-> up.body]
                 ELSE [temperature |-> src.vals.temp, condition |-> src.vals.condition,
                       wind_speed |-> src.vals.wind_speed, humidity |-> src.vals.humidity]

\* A faulty variant of _handle_weather_request: the credential is looked at
\* before the ranges.
_handle_weather_request_key_first(latitude, longitude, api_key, up) ==
    IF latitude.t = "none" \/ longitude.t = "none"
    THEN [payload |-> [error |-> <<"Neobhodimo ukazat' latitude i longitude">>],
          upstreamCalls |-> 0]
    ELSE IF FloatOverflows(latitude) \/ (FloatOk(latitude) /\ FloatOverflows(longitude))
    THEN [payload |-> [error |-> <<"OverflowError">>], upstreamCalls |-> 0,
          raised |-> "OverflowError"]
    ELSE IF ~FloatOk(latitude) \/ ~FloatOk(longitude)
    THEN [payload |-> [error |-> <<"Koordinaty dolzhny byt' chislami">>],
          upstreamCalls |-> 0]
    ELSE IF Falsy(api_key)
    THEN [payload |-> [error |-> <<"API klyuch ne nastroen">>], upstreamCalls |-> 0]
    ELSE IF Len(Strip(api_key.s)) = 0
    THEN [payload |-> [error |-> <<"API klyuch pustoj">>], upstreamCalls |-> 0]
    ELSE IF ~(-90 <= latitude.n /\ latitude.n <= 90)
    THEN [payload |-> [error |-> <<"Shirota dolzhna byt' v diapazone ot -90 do 90">>],
          upstreamCalls |-> 0]
    ELSE IF ~(-180 <= longitude.n /\ longitude.n <= 180)
    THEN [payload |-> [error |-> <<"Dolgota dolzhna byt' v diapazone ot -180 do 180">>],
          upstreamCalls |-> 0]
    ELSE [payload |-> WeatherUpstreamPayload(up), upstreamCalls |-> 1]

\* _handle_weather_request(latitude, longitude) with the environment's API
\* key and the upstream's reply: the payload and the number of upstream calls
_handle_weather_request(latitude, longitude, api_key, up) ==
    IF latitude.t = "none" \/ longitude.t = "none"
    THEN [payload |-> [error |-> <<"Neobhodimo ukazat' latitude i longitude">>],
          upstreamCalls |-> 0]
    ELSE IF FloatOverflows(latitude) \/ (FloatOk(latitude) /\ FloatOverflows(longitude))
    THEN \* OverflowError leaves the handler
         [payload |-> [error |-> <<"OverflowError">>], upstreamCalls |-> 0,
          raised |-> "OverflowError"]
    ELSE IF ~FloatOk(latitude) \/ ~FloatOk(longitude)
    THEN [payload |-> [error |-> <<"Koordinaty dolzhny byt' chislami">>],
          upstreamCalls |-> 0]
    ELSE IF ~(-90 <= latitude.n /\ latitude.n <= 90)
    THEN [payload |-> [error |-> <<"Shirota dolzhna byt' v diapazone ot -90 do 90">>],
          upstreamCalls |-> 0]
    ELSE IF ~(-180 <= longitude.n /\ longitude.n <= 180)
    THEN [payload |-> [error |-> <<"Dolgota dolzhna byt' v diapazone ot -180 do 180">>],
          upstreamCalls |-> 0]
    ELSE IF Falsy(api_key)
    THEN [payload |-> [error |-> <<"API klyuch ne nastroen">>], upstreamCalls |-> 0]
    ELSE IF Len(Strip(api_key.s)) = 0
    THEN [payload |-> [error |-> <<"API klyuch pustoj">>], upstreamCalls |-> 0]
    ELSE [payload |-> WeatherUpstreamPayload(up), upstreamCalls |-> 1]

(***************************************************************************)
(* src/mcp_server.py: do_GET and do_POST.  Each yields the response        *)
(* [status, body] and the number of calls made to an upstream API.         *)
(***************************************************************************)
GetPaths == {"/news", "/get_news", "/weather", "/get_weather", "/", "/health", "/other"}

HealthBody ==
    [status |-> "ok", server |-> "MCP Server", tools |-> <<"get_news", "get_weather">>,
     endpoints |-> <<"/news ili /get_news", "/weather ili /get_weather">>]

\* A faulty variant of StatusOf: every payload is answered with 200.
StatusOfAlwaysOk(response_data) == 200

\* `status_code = 200 if 'error' not in response_data else 400`
StatusOf(response_data) == IF "error" \in DOMAIN response_data THEN 400 ELSE 200

\* The response to what a handler did: its payload with the status of lines
\* 76 and 124, or the 500 of the `except Exception` of lines 81-84 and
\* 129-132 when an exception left the handler
Respond(h) ==
    IF "raised" \in DOMAIN h
    THEN [status |-> 500,
          body |-> [error |-> <<"Vnutrennyaya oshibka servera: ", h.raised>>],
          upstreamCalls |-> h.upstreamCalls]
    ELSE [status |-> StatusOf(h.payload), body |-> h.payload,
          upstreamCalls |-> h.upstreamCalls]

\* A faulty variant of do_GET: the health route asks the news API first and
\* answers with what it got.
do_GET_health_probing(path, latitude, longitude, api_key, newsUp, weatherUp) ==
    IF path \in {"/news", "/get_news"}
    THEN Respond(_handle_news_request(newsUp))
    ELSE IF path \in {"/weather", "/get_weather"}
    THEN Respond(_handle_weather_request(latitude, longitude, api_key, weatherUp))
    ELSE IF path \in {"/", "/health"}
    THEN IF "error" \in DOMAIN _handle_news_request(newsUp).payload
         THEN Respond(_handle_news_request(newsUp))
         ELSE [status |-> 200, body |-> HealthBody, upstreamCalls |-> 1]
    ELSE [status |-> 404,
          body |-> [error |-> <<"Neizvestnyj endpoint">>,
                    available_endpoints |->
                        <<"/news", "/get_news", "/weather", "/get_weather", "/health">>],
          upstreamCalls |-> 0]

\* do_GET(path?latitude=..&longitude=..)
do_GET(path, latitude, longitude, api_key, newsUp, weatherUp) ==
    IF path \in {"/news", "/get_news"}
    THEN Respond(_handle_news_request(newsUp))
    ELSE IF path \in {"/weather", "/get_weather"}
    THEN Respond(_handle_weather_request(latitude, longitude, api_key, weatherUp))
    ELSE IF path \in {"/", "/health"}
    THEN [status |-> 200, body |-> HealthBody, upstreamCalls |-> 0]
    ELSE [status |-> 404,
          body |-> [error |-> <<"Neizvestnyj endpoint">>,
                    available_endpoints |->
                        <<"/news", "/get_news", "/weather", "/get_weather", "/health">>],
          upstreamCalls |-> 0]

\* A POST body: empty, not JSON, or JSON.  A JSON body is an object (isDict)
\* with the two coordinates (CoordNone when the key is absent), or not an object.
PostEmpty == [kind |-> "empty", isDict |-> TRUE, latitude |-> CoordNone, longitude |-> CoordNone]
PostInvalid == [kind |-> "invalid", isDict |-> FALSE, latitude |-> CoordNone, longitude |-> CoordNone]
PostNonDict == [kind |-> "json", isDict |-> FALSE, latitude |-> CoordNone, longitude |-> CoordNone]
PostDict(lat, lon) == [kind |-> "json", isDict |-> TRUE, latitude |-> lat, longitude |-> lon]

\* do_POST(path, body)
do_POST(path, body, api_key, newsUp, weatherUp) ==
    IF body.kind = "invalid"
    THEN [status |-> 400, body |-> [error |-> <<"Nekorrektnyj JSON: ", "JSONDecodeError">>],
          upstreamCalls |-> 0]
    ELSE IF path \in {"/news", "/get_news"}
    THEN Respond(_handle_news_request(newsUp))
    ELSE IF path \in {"/weather", "/get_weather"}
    THEN IF ~body.isDict
         THEN \* request_data.get raises AttributeError: the outer except answers
              [status |-> 500,
               body |-> [error |-> <<"Vnutrennyaya oshibka servera: ", "AttributeError">>],
               upstreamCalls |-> 0]
         ELSE Respond(_handle_weather_request(body.latitude, body.longitude,
                                              api_key, weatherUp))
    ELSE [status |-> 404,
          body |-> [error |-> <<"Neizvestnyj endpoint">>,
                    available_endpoints |->
                        <<"/news", "/get_news", "/weather", "/get_weather">>],
          upstreamCalls |-> 0]

(***************************************************************************)
(* src/dags/news_tool.py and src/dags/weather_tool.py: the HTTP clients.   *)
(*                                                                         *)
(* `net` is what the one requests.get call to the tool server meets: "ok"  *)
(* (the server answers), "connection_error" or "timeout".  Each yields the *)
(* ToolResult, the number of HTTP requests made to the tool server and the *)
(* number of upstream calls the server made for them.                      *)
(***************************************************************************)
NetOutcomes == {"ok", "connection_error", "timeout"}

\* A faulty variant of get_news_titles: a request that failed is sent again.
get_news_titles_retrying(net, newsUp) ==
    IF net # "ok"
    THEN [result |-> [error |-> <<"Oshibka pri zaprose novostej: ", net>>],
          httpRequests |-> 2, upstreamCalls |-> 0]
    ELSE LET r == do_GET("/news", CoordNone, CoordNone, NoneValue, newsUp, newsUp)
         IN  [result |-> r.body, httpRequests |-> 1, upstreamCalls |-> r.upstreamCalls]

\* get_news_titles()
get_news_titles(net, newsUp) ==
    IF net # "ok"
    THEN [result |-> [error |-> <<"Oshibka pri zaprose novostej: ", net>>],
          httpRequests |-> 1, upstreamCalls |-> 0]
    ELSE LET r == do_GET("/news", CoordNone, CoordNone, NoneValue, newsUp, newsUp)
         IN  IF r.status >= 400
             THEN \* raise_for_status raises HTTPError, a RequestException
                  [result |-> [error |-> <<"Oshibka pri zaprose novostej: ",
                                           ToString(r.status)>>],
                   httpRequests |-> 1, upstreamCalls |-> r.upstreamCalls]
             ELSE [result |-> r.body, httpRequests |-> 1,
                   upstreamCalls |-> r.upstreamCalls]

\* how requests encodes a coordinate into the query string, as the server's
\* parse_qs reads it back: a number becomes its decimal string, None and the
\* empty list are left out
QueryParam(x) ==
    CASE x.t = "num" \/ x.t = "bigint" -> CoordStr(x.n)
      [] x.t = "str" -> x
      [] OTHER -> CoordNone

\* get_weather(latitude, longitude)
get_weather(latitude, longitude, net, api_key, weatherUp) ==
    IF net # "ok"
    THEN [result |-> [error |-> <<"Oshibka pri zaprose pogody: ", net>>,
                      latitude |-> latitude, longitude |-> longitude],
          httpRequests |-> 1, upstreamCalls |-> 0]
    ELSE LET r == do_GET("/weather", QueryParam(latitude), QueryParam(longitude),
                         api_key, weatherUp, weatherUp)
         IN  IF r.status >= 400
             THEN [result |-> [error |-> <<"Oshibka pri zaprose pogody: ",
                                           ToString(r.status)>>,
                               latitude |-> latitude, longitude |-> longitude],
                   httpRequests |-> 1, upstreamCalls |-> r.upstreamCalls]
             ELSE [result |-> r.body, httpRequests |-> 1,
                   upstreamCalls |-> r.upstreamCalls]

(***************************************************************************)
(* src/dags/news_tool.py: execute_news_tool;                               *)
(* src/dags/weather_tool.py: execute_weather_tool.                         *)
(*                                                                         *)
(* A tool_call is a dict that may hold "name" and "arguments".  An         *)
(* arguments value is [t, text, latitude, longitude]: t = "str" (the JSON  *)
(* text), "dict" (a mapping, with its two coordinates), "list" or "none".  *)
(***************************************************************************)
ArgStr(text) == [t |-> "str", text |-> text, latitude |-> CoordNone, longitude |-> CoordNone]
ArgDict(lat, lon) == [t |-> "dict", text |-> "", latitude |-> lat, longitude |-> lon]
ArgList == [t |-> "list", text |-> "", latitude |-> CoordNone, longitude |-> CoordNone]
ArgNone == [t |-> "none", text |-> "", latitude |-> CoordNone, longitude |-> CoordNone]

\* the argument strings the model draws from
ArgTexts == {"{}", "{\"latitude\": 55, \"longitude\": 37}", "{\"latitude\": 91}",
             "[]", "null", "{bad", ""}

\* json.loads(text): the value, or ok = FALSE for json.JSONDecodeError
JsonLoads(text) ==
    CASE text = "{}" -> [ok |-> TRUE, value |-> ArgDict(CoordNone, CoordNone)]
      [] text = "{\"latitude\": 55, \"longitude\": 37}" ->
             [ok |-> TRUE, value |-> ArgDict(CoordNum(55), CoordNum(37))]
      [] text = "{\"latitude\": 91}" ->
             [ok |-> TRUE, value |-> ArgDict(CoordNum(91), CoordNone)]
      [] text = "[]" -> [ok |-> TRUE, value |-> ArgList]
      [] text = "null" -> [ok |-> TRUE, value |-> ArgNone]
      [] OTHER -> [ok |-> FALSE, value |-> ArgNone]

\* tool_call.get("name", "")
NameOf(tool_call) == IF "name" \in DOMAIN tool_call THEN tool_call.name ELSE ""

\* tool_call.get("arguments", {})
ArgumentsOf(tool_call) ==
    IF "arguments" \in DOMAIN tool_call THEN tool_call.arguments
    ELSE ArgDict(CoordNone, CoordNone)

\* what a dispatch leaves behind when it made no HTTP request
NoCall(result, decoded) ==
    [result |-> result, raised |-> FALSE, decoded |-> decoded, handlerCalls |-> 0,
     httpRequests |-> 0, upstreamCalls |-> 0]

\* A faulty variant of execute_news_tool: the name is not checked before the
\* arguments are decoded and the handler runs.
execute_news_tool_unchecked(tool_call, net, newsUp) ==
    LET arguments == ArgumentsOf(tool_call)
        parsed == IF arguments.t = "str" THEN JsonLoads(arguments.text)
                  ELSE [ok |-> TRUE, value |-> arguments]
        h == get_news_titles(net, newsUp)
    IN  [result |-> h.result, raised |-> FALSE, decoded |-> arguments.t = "str",
         handlerCalls |-> 1, httpRequests |-> h.httpRequests,
         upstreamCalls |-> h.upstreamCalls]

\* A faulty variant of execute_news_tool: arguments that do not decode are
\* taken as no arguments and the handler runs.
execute_news_tool_lenient(tool_call, net, newsUp) ==
    LET function_name == NameOf(tool_call)
        arguments == ArgumentsOf(tool_call)
    IN  IF function_name # "news"
        THEN NoCall([error |-> <<"Neizvestnaya funkciya: ", function_name>>], FALSE)
        ELSE LET h == get_news_titles(net, newsUp)
             IN  [result |-> h.result, raised |-> FALSE,
                  decoded |-> arguments.t = "str", handlerCalls |-> 1,
                  httpRequests |-> h.httpRequests, upstreamCalls |-> h.upstreamCalls]

\* execute_news_tool(tool_call): the ToolResult, whether an exception escaped,
\* whether json.loads ran, how often the handler get_news_titles ran and the
\* HTTP requests it made
execute_news_tool(tool_call, net, newsUp) ==
    LET function_name == NameOf(tool_call)
        arguments == ArgumentsOf(tool_call)
        parsed == IF arguments.t = "str" THEN JsonLoads(arguments.text)
                  ELSE [ok |-> TRUE, value |-> arguments]
    IN  IF function_name # "news"
        THEN NoCall([error |-> <<"Neizvestnaya funkciya: ", function_name>>], FALSE)
        ELSE IF ~parsed.ok
        THEN NoCall([error |-> <<"Oshibka parsinga argumentov: ", "JSONDecodeError">>],
                    TRUE)
        ELSE LET h == get_news_titles(net, newsUp)
             IN  [result |-> h.result, raised |-> FALSE,
                  decoded |-> arguments.t = "str", handlerCalls |-> 1,
                  httpRequests |-> h.httpRequests, upstreamCalls |-> h.upstreamCalls]

\* execute_weather_tool(tool_call)
execute_weather_tool(tool_call, net, api_key, weatherUp) ==
    LET function_name == NameOf(tool_call)
        arguments == ArgumentsOf(tool_call)
        parsed == IF arguments.t = "str" THEN JsonLoads(arguments.text)
                  ELSE [ok |-> TRUE, value |-> arguments]
        args == parsed.value
    IN  IF function_name # "weather"
        THEN NoCall([error |-> <<"Neizvestnaya funkciya: ", function_name>>], FALSE)
        ELSE IF ~parsed.ok
        THEN NoCall([error |-> <<"Oshibka parsinga argumentov: ", "JSONDecodeError">>],
                    TRUE)
        ELSE IF args.t # "dict"
        THEN \* arguments.get raises AttributeError: nothing catches it
             [result |-> [error |-> <<"AttributeError">>], raised |-> TRUE,
              decoded |-> arguments.t = "str", handlerCalls |-> 0,
              httpRequests |-> 0, upstreamCalls |-> 0]
        ELSE IF args.latitude.t = "none" \/ args.longitude.t = "none"
        THEN NoCall([error |-> <<"Ne ukazany koordinaty latitude i/ili longitude">>],
                    arguments.t = "str")
        ELSE LET h == get_weather(args.latitude, args.longitude, net, api_key, weatherUp)
             IN  [result |-> h.result, raised |-> FALSE,
                  decoded |-> arguments.t = "str", handlerCalls |-> 1,
                  httpRequests |-> h.httpRequests, upstreamCalls |-> h.upstreamCalls]

(***************************************************************************)
(* src/dags/news_tool.py: register_news_tool.  A tool list is a sequence   *)
(* of descriptors; only the function name of a descriptor is read.         *)
(***************************************************************************)
NEWS_TOOL_DEFINITION == [type |-> "function", name |-> "news"]

\* A faulty variant of register_news_tool: the list is not searched first.
register_news_tool_appending(tools_list) == Append(tools_list, NEWS_TOOL_DEFINITION)

\* register_news_tool(tools_list)
register_news_tool(tools_list) ==
    IF \E i \in 1..Len(tools_list) : tools_list[i].name = "news"
    THEN tools_list
    ELSE Append(tools_list, NEWS_TOOL_DEFINITION)

WEATHER_TOOL_DEFINITION == [type |-> "function", name |-> "weather"]

\* register_weather_tool(tools_list)
register_weather_tool(tools_list) ==
    IF \E i \in 1..Len(tools_list) : tools_list[i].name = "weather"
    THEN tools_list
    ELSE Append(tools_list, WEATHER_TOOL_DEFINITION)

(***************************************************************************)
(* The DAG run: get_news >> summarize_news >> prepare_email >> send_email. *)
(***************************************************************************)
VARIABLES
    run,          \* the DAG run: "idle", "running", "success", "failed"
    task,         \* the task instance that is due or running
    tries,        \* failed attempts of `task` so far
    pc,           \* where the running task stands
    xcom,         \* the XCom store of the run: a dict from key to value
    mail,         \* the calls made to airflow.utils.email.send_email
    messages,     \* summarize_news_with_gigachat: the conversation
    message,      \* the reply message the final text is read from
    pending,      \* the tool calls of the first reply not yet dispatched
    summary,      \* the extracted final text
    chatLog,      \* the requests sent to the model by this invocation, each
                  \* with the credentials of the client that sent it
    dispatchLog,  \* the tool dispatches of this invocation
    returned,     \* the value summarize_news_with_gigachat returned
    probe,        \* the last call made from outside the DAG run
    backlog,      \* the tool server: the connections not yet accepted
    serving,      \* the tool server: the connection its handler is serving
    served        \* the tool server: the connections answered, in order

vars == <<run, task, tries, pc, xcom, mail, messages, message, pending, summary,
          chatLog, dispatchLog, returned, probe, backlog, serving, served>>

srvVars == <<backlog, serving, served>>

orchVars == <<messages, message, pending, summary, chatLog, dispatchLog, returned>>

\* default_args['retries']
Retries == 1

TaskOrder == <<"get_news", "summarize_news", "prepare_email", "send_email">>

\* the task downstream of t
NextTask(t) == TaskOrder[(CHOOSE i \in 1..Len(TaskOrder) : TaskOrder[i] = t) + 1]

NoMessage == [content |-> NoneValue, tool_calls |-> <<>>]
NoReply == [kind |-> "none", repr |-> <<>>, message |-> NoMessage]
NoProbe == [op |-> "none"]
Idle == [busy |-> FALSE]

\* the tool server after HTTPServer(server_address, MCPRequestHandler)
ServerInit ==
    /\ backlog = <<>>
    /\ serving = Idle
    /\ served = <<>>

\* the locals of summarize_news_with_gigachat before it runs
OrchInit ==
    /\ messages = <<>>
    /\ message = NoMessage
    /\ pending = <<>>
    /\ summary = NoneValue
    /\ chatLog = <<>>
    /\ dispatchLog = <<>>
    /\ returned = NoneValue

Init ==
    /\ run = "idle"
    /\ task = "get_news"
    /\ tries = 0
    /\ pc = "start"
    /\ xcom = <<>>
    /\ mail = <<>>
    /\ OrchInit
    /\ probe = NoProbe
    /\ ServerInit

\* ti.xcom_push(key, value)
XComPush(store, key, value) == (key :> value) @@ store

\* what the upstream news API answers during a DAG run: it times out, or it
\* has no article, or it has the articles A and B
RunNewsUpstream ==
    {u \in NewsUpstreamReplies :
         \/ u.kind = "timeout"
         \/ /\ u.kind = "response" /\ u.status = 200
            /\ u.body.json = "dict" /\ u.body.hasResults /\ u.body.resultsIsList
            /\ u.body.results \in
                   {<<>>, <<[kind |-> "dict", hasTitle |-> TRUE, title |-> "A"],
                            [kind |-> "dict", hasTitle |-> TRUE, title |-> "B"]>>}}

\* what a request of a DAG run to the tool server meets
RunNetOutcomes == {"ok", "timeout"}

(***************************************************************************)
(* The scheduler (Airflow): the run starts, a task that returned is        *)
(* followed by the next one, a task that raised is retried `retries`       *)
(* times and then fails the run, whose downstream tasks never start.       *)
(***************************************************************************)
StartRun ==
    /\ run = "idle"
    /\ run' = "running"
    /\ probe' = NoProbe
    /\ UNCHANGED <<task, tries, pc, xcom, mail, orchVars>>
    /\ UNCHANGED srvVars

TaskSucceeded ==
    /\ run = "running" /\ pc = "returned"
    /\ IF task = "send_email"
       THEN run' = "success" /\ UNCHANGED <<task, tries, pc>>
       ELSE /\ task' = NextTask(task)
            /\ tries' = 0
            /\ pc' = "start"
            /\ UNCHANGED run
    /\ UNCHANGED <<xcom, mail, orchVars, probe>>
    /\ UNCHANGED srvVars

TaskRetried ==
    /\ run = "running" /\ pc = "raised" /\ tries < Retries
    /\ tries' = tries + 1
    /\ pc' = "start"
    /\ messages' = <<>> /\ message' = NoMessage /\ pending' = <<>>
    /\ summary' = NoneValue /\ chatLog' = <<>> /\ dispatchLog' = <<>>
    /\ returned' = NoneValue
    /\ UNCHANGED <<run, task, xcom, mail, probe>>
    /\ UNCHANGED srvVars

TaskFailed ==
    /\ run = "running" /\ pc = "raised" /\ tries >= Retries
    /\ run' = "failed"
    /\ UNCHANGED <<task, tries, pc, xcom, mail, orchVars, probe>>
    /\ UNCHANGED srvVars

(***************************************************************************)
(* get_news_task                                                           *)
(***************************************************************************)
\* A faulty variant of get_news_task: the result is stored before it is
\* looked at.
get_news_task_storing_first ==
    /\ run = "running" /\ task = "get_news" /\ pc = "start"
    /\ \E net \in RunNetOutcomes, up \in RunNewsUpstream :
           LET news_data == get_news_titles(net, up).result
           IN  /\ xcom' = XComPush(xcom, "news_data", news_data)
               /\ pc' = IF "error" \in DOMAIN news_data THEN "raised" ELSE "returned"
    /\ UNCHANGED <<run, task, tries, mail, orchVars, probe>>
    /\ UNCHANGED srvVars

get_news_task ==
    /\ run = "running" /\ task = "get_news" /\ pc = "start"
    /\ \E net \in RunNetOutcomes, up \in RunNewsUpstream :
           LET news_data == get_news_titles(net, up).result
           IN  IF "error" \in DOMAIN news_data
               THEN pc' = "raised" /\ UNCHANGED xcom
               ELSE /\ xcom' = XComPush(xcom, "news_data", news_data)
                    /\ pc' = "returned"
    /\ UNCHANGED <<run, task, tries, mail, orchVars, probe>>
    /\ UNCHANGED srvVars

(***************************************************************************)
(* summarize_news_with_gigachat, step by step.                             *)
(*                                                                         *)
(* pc: "start" -> "prompting" (the first request is with the model)        *)
(*     -> "tool_resolution" (the loop over message.tool_calls)             *)
(*     -> "resending" (the second request is with the model)               *)
(*     -> "finalizing" (the checks of the final text)                      *)
(*     -> "returned" | "raised".                                           *)
(***************************************************************************)
\* the values of the Airflow Variable GIGACHAT_CREDENTIALS
CredentialValues == {<<>>, <<" ", "\n">>, <<"k", "e", "y", "\n">>}

\* the three cleaning steps of lines 137-139: every whitespace character goes
CleanCredentials(s) == SelectSeq(Strip(s), LAMBDA c : c \notin Whitespace)

\* A faulty variant of CredentialsBlank: only the raw value is looked at.
CredentialsBlankRaw(s) == s = <<>>

\* lines 128 and 141: the value is empty, or empty once it is cleaned
CredentialsBlank(s) == s = <<>> \/ CleanCredentials(s) = <<>>

\* the tool calls a model reply may carry: objects with or without a
\* `function` attribute
ToolCallObjects ==
    {[hasFunction |-> TRUE, name |-> "news", arguments |-> ArgDict(CoordNone, CoordNone)],
     [hasFunction |-> TRUE, name |-> "news", arguments |-> ArgStr("{bad")],
     [hasFunction |-> TRUE, name |-> "weather", arguments |-> ArgStr("{}")],
     [hasFunction |-> FALSE, name |-> "", arguments |-> ArgNone]}

\* message.content of a reply without tool calls: None, empty, blank, plain,
\* and texts that hold a failure marker
ReplyContents ==
    {NoneValue, Some(<<>>), Some(W_space), Some(W_btc), Some(W_space \o W_btc),
     Some(W_Error), Some(W_failed)}

\* message.content of a reply that carries tool calls
ToolReplyContents == {NoneValue, Some(W_btc)}

\* str(response) of a response without choices
ResponseReprs ==
    {<<"c", "h", "o", "i", "c", "e", "s", "=", "[", "]">>,
     <<"c", "h", "o", "i", "c", "e", "s", "=", "[", "]", " ", "1", "4", "0", "0">>}

\* What client.chat(chat) does: it raises ("fails"), or returns a response
\* without choices whose str() is repr, or one whose first choice is message.
PlainReplies ==
    {[kind |-> "fails", repr |-> <<>>, message |-> NoMessage]}
    \cup {[kind |-> "no_choices", repr |-> r, message |-> NoMessage] :
              r \in ResponseReprs}
    \cup {[kind |-> "message", repr |-> <<>>,
           message |-> [content |-> c, tool_calls |-> <<>>]] : c \in ReplyContents}

\* the replies to the first request: plain, or with up to MaxToolCalls tool calls
FirstReplies ==
    PlainReplies
    \cup {[kind |-> "message", repr |-> <<>>,
           message |-> [content |-> c, tool_calls |-> tc]] :
              c \in ToolReplyContents,
              tc \in SeqsUpTo(ToolCallObjects, MaxToolCalls) \ {<<>>}}

\* the replies to the second request: plain, or asking for a tool again
ResendReplies ==
    PlainReplies
    \cup {[kind |-> "message", repr |-> <<>>,
           message |-> [content |-> Some(W_btc), tool_calls |-> <<tc>>]] :
              tc \in {c \in ToolCallObjects : c.hasFunction /\ c.name = "news"}}

NumberedTitle(titles, i) ==
    IF i = 1 THEN <<ToString(i), ". ", titles[i]>>
    ELSE <<"\n", ToString(i), ". ", titles[i]>>

RECURSIVE NewsText(_, _)
\* "\n".join([f"{i+1}. {title}" ...]) over the first n titles
NewsText(titles, n) ==
    IF n = 0 THEN <<>> ELSE NewsText(titles, n - 1) \o NumberedTitle(titles, n)

\* the prompt of lines 105-115
Prompt(titles) ==
    <<"Proanaliziruj sleduyushchie novosti o Bitcoin ... Novosti:\n">>
        \o NewsText(titles, Len(titles))
        \o <<"\n\nSozdaj strukturirovannoe sammari ... (ne bolee 500 slov).">>

\* what summarize_news_with_gigachat returns when there are no titles
NO_NEWS == <<"Novostej ne najdeno.">>

Raise ==
    /\ pc' = "raised"
    /\ UNCHANGED <<run, task, tries, xcom, mail, probe>>

\* lines 89-165: the news are pulled, the client is built, the first request
\* is sent
summarize_start ==
    /\ run = "running" /\ task = "summarize_news" /\ pc = "start"
    /\ \E installed \in BOOLEAN, GIGACHAT_CREDENTIALS \in CredentialValues :
           LET news_data == IF "news_data" \in DOMAIN xcom
                            THEN xcom.news_data ELSE <<>>
           IN  IF "titles" \notin DOMAIN news_data
               THEN Raise /\ UNCHANGED orchVars
               ELSE IF news_data.titles = <<>>
               THEN /\ returned' = Some(NO_NEWS)
                    /\ pc' = "returned"
                    /\ UNCHANGED <<run, task, tries, xcom, mail, probe, messages,
                                   message, pending, summary, chatLog, dispatchLog>>
               ELSE IF ~installed
               THEN Raise /\ UNCHANGED orchVars
               ELSE IF CredentialsBlank(GIGACHAT_CREDENTIALS)
               THEN Raise /\ UNCHANGED orchVars
               ELSE LET tools == register_news_tool(<<>>)
                        first == <<[role |-> "user",
                                    content |-> Prompt(news_data.titles),
                                    name |-> ""]>>
                    IN  /\ messages' = first
                        /\ chatLog' = <<[messages |-> first, tools |-> tools,
                                         credentials |->
                                             CleanCredentials(GIGACHAT_CREDENTIALS),
                                         outcome |-> "sent", reply |-> NoReply]>>
                        /\ pc' = "prompting"
                        /\ UNCHANGED <<run, task, tries, xcom, mail, probe, message,
                                       pending, summary, dispatchLog, returned>>
    /\ UNCHANGED srvVars

\* the last request of the log gets its outcome and the reply it met
Answered(log, outcome, response) ==
    [log EXCEPT ![Len(log)].outcome = outcome, ![Len(log)].reply = response]

\* A faulty variant of FinalText: the content is stripped before it is used.
FinalTextStripped(reply) ==
    IF reply.content.isNone THEN reply.content ELSE Some(Strip(reply.content.s))

\* line 203: the text read from the final message
FinalText(reply) == reply.content

\* lines 165-173 and 203-205: the reply to the first request
first_reply ==
    /\ run = "running" /\ task = "summarize_news" /\ pc = "prompting"
    /\ \E response \in FirstReplies :
           CASE response.kind = "fails" ->
                    /\ chatLog' = Answered(chatLog, "failed", response)
                    /\ Raise
                    /\ UNCHANGED <<messages, message, pending, summary,
                                   dispatchLog, returned>>
             [] response.kind = "no_choices" ->
                    /\ chatLog' = Answered(chatLog, "answered", response)
                    /\ summary' = Some(response.repr)
                    /\ pc' = "finalizing"
                    /\ UNCHANGED <<run, task, tries, xcom, mail, probe, messages,
                                   message, pending, dispatchLog, returned>>
             [] response.kind = "message" /\ response.message.tool_calls = <<>> ->
                    /\ chatLog' = Answered(chatLog, "answered", response)
                    /\ message' = response.message
                    /\ summary' = FinalText(response.message)
                    /\ pc' = "finalizing"
                    /\ UNCHANGED <<run, task, tries, xcom, mail, probe, messages,
                                   pending, dispatchLog, returned>>
             [] OTHER ->
                    /\ chatLog' = Answered(chatLog, "answered", response)
                    /\ message' = response.message
                    /\ pending' = response.message.tool_calls
                    /\ pc' = "tool_resolution"
                    /\ UNCHANGED <<run, task, tries, xcom, mail, probe, messages,
                                   summary, dispatchLog, returned>>
    /\ UNCHANGED srvVars

\* a JSON string literal of a text without quotes, backslashes or non-ASCII
\* letters (json.dumps would escape those)
JsonString(parts) == <<"\"">> \o parts \o <<"\"">>

RECURSIVE JsonItems(_, _)
\* the first n titles as JSON strings, joined by ", "
JsonItems(titles, n) ==
    IF n = 0 THEN <<>>
    ELSE JsonItems(titles, n - 1)
             \o (IF n = 1 THEN <<>> ELSE <<", ">>) \o JsonString(<<titles[n]>>)

\* A faulty variant of JsonDumps: str(tool_result), the Python repr.
ReprDumps(result) ==
    IF DOMAIN result = {"error"}
    THEN <<"{'error': '">> \o result.error \o <<"'}">>
    ELSE <<"{'titles': ">> \o result.titles \o <<", 'total_count': ",
                                                ToString(result.total_count), "}">>

\* json.dumps(tool_result) of the ToolResults execute_news_tool returns
JsonDumps(result) ==
    CASE DOMAIN result = {"error"} ->
             <<"{\"error\": ">> \o JsonString(result.error) \o <<"}">>
      [] DOMAIN result = {"titles", "total_count"} ->
             <<"{\"titles\": [">> \o JsonItems(result.titles, Len(result.titles))
                 \o <<"], \"total_count\": ", ToString(result.total_count), "}">>

\* A faulty variant of ToolMessages: only the tool message is appended.
ToolMessagesToolOnly(reply, tool_call_dict, tool_result) ==
    <<[role |-> "tool", content |-> JsonDumps(tool_result),
       name |-> tool_call_dict.name]>>

\* the two messages lines 185-190 append for one dispatched tool call
ToolMessages(reply, tool_call_dict, tool_result) ==
    <<[role |-> "assistant", content |-> PyStr(reply.content), name |-> ""],
      [role |-> "tool", content |-> JsonDumps(tool_result),
       name |-> tool_call_dict.name]>>

\* A faulty variant of dispatch_tool: the tool calls are taken from the end
\* of the list.
dispatch_tool_last_first ==
    /\ run = "running" /\ task = "summarize_news" /\ pc = "tool_resolution"
    /\ pending # <<>>
    /\ LET tool_call == pending[Len(pending)]
           tool_call_dict == [name |-> tool_call.name,
                              arguments |-> tool_call.arguments]
       IN  IF ~tool_call.hasFunction
           THEN /\ pending' = SubSeq(pending, 1, Len(pending) - 1)
                /\ UNCHANGED <<run, task, tries, pc, xcom, mail, probe, messages,
                               message, summary, chatLog, dispatchLog, returned>>
           ELSE \E net \in RunNetOutcomes, up \in RunNewsUpstream :
                    LET d == execute_news_tool(tool_call_dict, net, up)
                    IN  /\ dispatchLog' = Append(dispatchLog,
                                                 [tool_call |-> tool_call_dict, did |-> d])
                        /\ IF d.raised
                           THEN Raise /\ UNCHANGED <<messages, message, pending,
                                                     summary, chatLog, returned>>
                           ELSE /\ messages' = messages
                                        \o ToolMessages(message, tool_call_dict, d.result)
                                /\ pending' = SubSeq(pending, 1, Len(pending) - 1)
                                /\ UNCHANGED <<run, task, tries, pc, xcom, mail, probe,
                                               message, summary, chatLog, returned>>
    /\ UNCHANGED srvVars

\* lines 175-190: one pass of the loop over message.tool_calls
dispatch_tool ==
    /\ run = "running" /\ task = "summarize_news" /\ pc = "tool_resolution"
    /\ pending # <<>>
    /\ LET tool_call == Head(pending)
           tool_call_dict == [name |-> tool_call.name,
                              arguments |-> tool_call.arguments]
       IN  IF ~tool_call.hasFunction
           THEN /\ pending' = Tail(pending)
                /\ UNCHANGED <<run, task, tries, pc, xcom, mail, probe, messages,
                               message, summary, chatLog, dispatchLog, returned>>
           ELSE \E net \in RunNetOutcomes, up \in RunNewsUpstream :
                    LET d == execute_news_tool(tool_call_dict, net, up)
                    IN  /\ dispatchLog' = Append(dispatchLog,
                                                 [tool_call |-> tool_call_dict, did |-> d])
                        /\ IF d.raised
                           THEN Raise /\ UNCHANGED <<messages, message, pending,
                                                     summary, chatLog, returned>>
                           ELSE /\ messages' = messages
                                        \o ToolMessages(message, tool_call_dict, d.result)
                                /\ pending' = Tail(pending)
                                /\ UNCHANGED <<run, task, tries, pc, xcom, mail, probe,
                                               message, summary, chatLog, returned>>
    /\ UNCHANGED srvVars

\* lines 192-199: the conversation is sent again, with the same tools
resend ==
    /\ run = "running" /\ task = "summarize_news" /\ pc = "tool_resolution"
    /\ pending = <<>>
    /\ chatLog' = Append(chatLog, [messages |-> messages, tools |-> chatLog[1].tools,
                                   credentials |-> chatLog[1].credentials,
                                   outcome |-> "sent", reply |-> NoReply])
    /\ pc' = "resending"
    /\ UNCHANGED <<run, task, tries, xcom, mail, probe, messages, message, pending,
                   summary, dispatchLog, returned>>
    /\ UNCHANGED srvVars

\* A faulty variant of resend_reply: tool calls of the second reply are
\* resolved like those of the first.
resend_reply_redispatching ==
    /\ run = "running" /\ task = "summarize_news" /\ pc = "resending"
    /\ \E response \in ResendReplies :
           IF response.kind = "fails"
           THEN /\ chatLog' = Answered(chatLog, "failed", response)
                /\ Raise
                /\ UNCHANGED <<messages, message, pending, summary, dispatchLog,
                               returned>>
           ELSE LET final == IF response.kind = "message"
                             THEN response.message ELSE message
                IN  /\ chatLog' = Answered(chatLog, "answered", response)
                    /\ message' = final
                    /\ summary' = FinalText(final)
                    /\ pending' = final.tool_calls
                    /\ pc' = IF final.tool_calls # <<>> /\ Len(chatLog) < 3
                             THEN "tool_resolution" ELSE "finalizing"
                    /\ UNCHANGED <<run, task, tries, xcom, mail, probe, messages,
                                   dispatchLog, returned>>
    /\ UNCHANGED srvVars

\* lines 199-203: the reply to the second request; a response without
\* choices leaves `message` the first reply
resend_reply ==
    /\ run = "running" /\ task = "summarize_news" /\ pc = "resending"
    /\ \E response \in ResendReplies :
           IF response.kind = "fails"
           THEN /\ chatLog' = Answered(chatLog, "failed", response)
                /\ Raise
                /\ UNCHANGED <<messages, message, pending, summary, dispatchLog,
                               returned>>
           ELSE LET final == IF response.kind = "message"
                             THEN response.message ELSE message
                IN  /\ chatLog' = Answered(chatLog, "answered", response)
                    /\ message' = final
                    /\ summary' = FinalText(final)
                    /\ pc' = "finalizing"
                    /\ UNCHANGED <<run, task, tries, xcom, mail, probe, messages,
                                   pending, dispatchLog, returned>>
    /\ UNCHANGED srvVars

\* A faulty variant of FinalVerdict: an empty text is accepted.
FinalVerdictNoEmptyCheck(text) ==
    IF ~text.isNone /\ SummaryRejected(text.s) THEN "rejected" ELSE "accepted"

\* lines 207-228: the checks of the final text
FinalVerdict(text) ==
    IF IsEmptySummary(text) THEN "empty"
    ELSE IF SummaryRejected(text.s) THEN "rejected"
    ELSE "accepted"

\* lines 207-233: the final text is checked, stored and returned
finalize ==
    /\ run = "running" /\ task = "summarize_news" /\ pc = "finalizing"
    /\ IF FinalVerdict(summary) # "accepted"
       THEN Raise /\ UNCHANGED orchVars
       ELSE /\ xcom' = XComPush(xcom, "summary", summary)
            /\ returned' = summary
            /\ pc' = "returned"
            /\ UNCHANGED <<run, task, tries, mail, probe, messages, message, pending,
                           summary, chatLog, dispatchLog>>
    /\ UNCHANGED srvVars

(***************************************************************************)
(* prepare_email_content and send_summary_email                            *)
(***************************************************************************)
\* str.replace('<', '&lt;').replace('>', '&gt;')
EscapeChar(c) == IF c = "<" THEN "&lt;" ELSE IF c = ">" THEN "&gt;" ELSE c
EscapeHtml(s) == [i \in 1..Len(s) |-> EscapeChar(s[i])]

ERROR_SUBJECT == <<"Oshibka pri podgotovke sammari novostej">>
SUMMARY_SUBJECT == <<"Sammari novostej o Bitcoin - ", "date">>

\* ti.xcom_pull(key=...): None when nothing was pushed under the key
PulledSummary(store) == IF "summary" \in DOMAIN store THEN store.summary ELSE NoneValue

\* the exception lines 259-266 raise inside the try, "" when none
PrepareFault(text) ==
    IF IsEmptySummary(text) THEN "Sammari ne bylo sozdano"
    ELSE IF EmailRejected(text.s) THEN "Sammari soderzhit oshibku"
    ELSE ""

\* the three values prepare_email_content pushes: the summary email, or the
\* error email its except branch (lines 336-345) builds
EmailFor(store) ==
    LET text == PulledSummary(store)
        fault == PrepareFault(text)
        titles == IF "news_data" \in DOMAIN store THEN store.news_data.titles ELSE <<>>
    IN  IF fault # ""
        THEN [subject |-> ERROR_SUBJECT,
              text |-> <<"Oshibka pri podgotovke email: ", fault>>,
              html |-> <<"<html><body><p>", "Oshibka pri podgotovke email: ", fault,
                         "</p></body></html>">>]
        ELSE [subject |-> SUMMARY_SUBJECT,
              text |-> <<"SAMMARI:">> \o text.s \o <<"SPISOK NOVOSTEJ:">> \o titles,
              html |-> <<"<html>", "Sammari:">> \o EscapeHtml(text.s)
                           \o <<"Spisok novostej:">> \o titles \o <<"</html>">>]

\* prepare_email_content: it never raises
prepare_email_content ==
    /\ run = "running" /\ task = "prepare_email" /\ pc = "start"
    /\ LET email == EmailFor(xcom)
       IN  xcom' = XComPush(XComPush(XComPush(xcom, "email_subject", email.subject),
                                     "email_text", email.text),
                            "email_html", email.html)
    /\ pc' = "returned"
    /\ UNCHANGED <<run, task, tries, mail, orchVars, probe>>
    /\ UNCHANGED srvVars

\* send_summary_email: send_email is called once; when SMTP fails it raises
send_summary_email ==
    /\ run = "running" /\ task = "send_email" /\ pc = "start"
    /\ IF "email_subject" \notin DOMAIN xcom \/ "email_html" \notin DOMAIN xcom
       THEN pc' = "raised" /\ UNCHANGED mail
       ELSE IF xcom.email_subject = <<>> \/ xcom.email_html = <<>>
       THEN pc' = "raised" /\ UNCHANGED mail
       ELSE \E delivered \in BOOLEAN :
                /\ mail' = Append(mail, [to |-> "RECIPIENT_EMAIL",
                                         subject |-> xcom.email_subject,
                                         html_content |-> xcom.email_html])
                /\ pc' = IF delivered THEN "returned" ELSE "raised"
    /\ UNCHANGED <<run, task, tries, xcom, orchVars, probe>>
    /\ UNCHANGED srvVars

(***************************************************************************)
(* Calls from outside the DAG run: HTTP requests to the tool provider      *)
(* server and calls of the tool dispatchers.  The server and the           *)
(* dispatchers keep no state, so these calls are explored before a run     *)
(* starts, one call in a behaviour; `probe` records it.  An input the call *)
(* never read is recorded as unused.                                       *)
(***************************************************************************)
Unused == [kind |-> "unused"]

\* the coordinates a GET carries in its query string: absent or strings
GetCoords(numbers) == {CoordNone, CoordText} \cup {CoordStr(n) : n \in numbers}

\* the coordinates a POST carries in its JSON body
PostCoords(numbers) ==
    {CoordNone, CoordText, CoordList, CoordHuge} \cup {CoordNum(n) : n \in numbers}

PostBodies ==
    {PostEmpty, PostInvalid, PostNonDict}
    \cup {PostDict(lat, lon) : lat \in PostCoords(LatNumbers), lon \in PostCoords(LonNumbers)}

\* the requests a client may send to the routes `paths`
Requests(paths) ==
    {[method |-> "GET", path |-> p, latitude |-> la, longitude |-> lo, body |-> PostEmpty] :
         p \in paths, la \in GetCoords(LatNumbers), lo \in GetCoords(LonNumbers)}
    \cup {[method |-> "POST", path |-> p, latitude |-> CoordNone,
           longitude |-> CoordNone, body |-> b] : p \in paths, b \in PostBodies}

\* the requests that carry no coordinates
PlainRequests(paths) ==
    {q \in Requests(paths) :
         /\ q.latitude = CoordNone /\ q.longitude = CoordNone
         /\ q.body \in {PostEmpty, PostInvalid, PostNonDict}}

\* BaseHTTPRequestHandler calls do_GET or do_POST by the request's method
Serve(q, api_key, newsUp, weatherUp) ==
    IF q.method = "GET"
    THEN do_GET(q.path, q.latitude, q.longitude, api_key, newsUp, weatherUp)
    ELSE do_POST(q.path, q.body, api_key, newsUp, weatherUp)

AnyFailure == CHOOSE u \in UpstreamFailures : TRUE

ServerProbe(q, api_key, upstream, r) ==
    [op |-> "request", request |-> q, api_key |-> api_key, upstream |-> upstream,
     status |-> r.status, body |-> r.body, upstreamCalls |-> r.upstreamCalls]

\* a request to /news or /get_news
ServerNews ==
    /\ run = "idle" /\ probe = NoProbe
    /\ \E q \in PlainRequests({"/news", "/get_news"}) :
           IF Serve(q, NoneValue, AnyFailure, AnyFailure).upstreamCalls = 0
           THEN probe' = ServerProbe(q, NoneValue, Unused,
                                     Serve(q, NoneValue, AnyFailure, AnyFailure))
           ELSE \E up \in NewsUpstreamReplies :
                    probe' = ServerProbe(q, NoneValue, up,
                                         Serve(q, NoneValue, up, AnyFailure))
    /\ UNCHANGED <<run, task, tries, pc, xcom, mail, orchVars>>
    /\ UNCHANGED srvVars

\* a request to /weather or /get_weather
ServerWeather ==
    /\ run = "idle" /\ probe = NoProbe
    /\ \E q \in Requests({"/weather", "/get_weather"}), api_key \in ApiKeys :
           IF Serve(q, api_key, AnyFailure, AnyFailure).upstreamCalls = 0
           THEN probe' = ServerProbe(q, api_key, Unused,
                                     Serve(q, api_key, AnyFailure, AnyFailure))
           ELSE \E up \in WeatherUpstreamReplies :
                    probe' = ServerProbe(q, api_key, up,
                                         Serve(q, api_key, AnyFailure, up))
    /\ UNCHANGED <<run, task, tries, pc, xcom, mail, orchVars>>
    /\ UNCHANGED srvVars

\* the upstream weather API down (a timeout) or up (an answer with a fact)
ServerWeatherUpstream ==
    {u \in WeatherUpstreamReplies :
         \/ u.kind = "timeout"
         \/ /\ u.kind = "response" /\ u.status = 200 /\ u.body.json = "dict"
            /\ u.body.fact \in {[p |-> "dict", vals |-> AllFields],
                                [p |-> "dict", vals |-> TempOnly]}
            /\ u.body.forecasts = [p |-> "absent", vals |-> NoFields]}

\* a request to /, /health or a path the server does not know, with any
\* credential configured and the two upstream APIs in any state
ServerOther ==
    /\ run = "idle" /\ probe = NoProbe
    /\ \E q \in PlainRequests({"/", "/health", "/other"}), api_key \in ApiKeys,
          newsUp \in RunNewsUpstream, weatherUp \in ServerWeatherUpstream :
           probe' = ServerProbe(q, api_key, Unused, Serve(q, api_key, newsUp, weatherUp))
    /\ UNCHANGED <<run, task, tries, pc, xcom, mail, orchVars>>
    /\ UNCHANGED srvVars

\* the tool_call dicts a caller may pass to a dispatcher
ToolCallArguments ==
    {ArgStr(t) : t \in ArgTexts}
    \cup {ArgList, ArgNone, ArgDict(CoordNone, CoordNone),
          ArgDict(CoordNum(55), CoordNum(37)), ArgDict(CoordNum(91), CoordNum(37)),
          ArgDict(CoordNum(55), CoordNone), ArgDict(CoordText, CoordNum(37))}

ToolCallDicts ==
    {[name |-> n, arguments |-> a] : n \in {"news", "weather", "stocks", ""},
                                     a \in ToolCallArguments}
    \cup {[name |-> n] : n \in {"news", "weather"}}
    \cup {[arguments |-> a] : a \in {ArgStr("{}"), ArgStr("{bad")}}

ToolProbe(op, tool_call, net, api_key, upstream, d) ==
    [op |-> op, tool_call |-> tool_call,
     net |-> IF d.httpRequests = 0 THEN "unused" ELSE net,
     api_key |-> IF d.httpRequests = 0 \/ net # "ok" THEN NoneValue ELSE api_key,
     upstream |-> IF d.upstreamCalls = 0 THEN Unused ELSE upstream,
     did |-> d]

\* a call of execute_news_tool
CallNewsTool ==
    /\ run = "idle" /\ probe = NoProbe
    /\ \E tool_call \in ToolCallDicts, net \in NetOutcomes :
           IF execute_news_tool(tool_call, net, AnyFailure).upstreamCalls = 0
           THEN probe' = ToolProbe("execute_news_tool", tool_call, net, NoneValue, Unused,
                                   execute_news_tool(tool_call, net, AnyFailure))
           ELSE \E up \in NewsUpstreamReplies :
                    probe' = ToolProbe("execute_news_tool", tool_call, net, NoneValue, up,
                                       execute_news_tool(tool_call, net, up))
    /\ UNCHANGED <<run, task, tries, pc, xcom, mail, orchVars>>
    /\ UNCHANGED srvVars

\* a call of execute_weather_tool
CallWeatherTool ==
    /\ run = "idle" /\ probe = NoProbe
    /\ \E tool_call \in ToolCallDicts, net \in NetOutcomes, api_key \in ApiKeys :
           IF execute_weather_tool(tool_call, net, api_key, AnyFailure).upstreamCalls = 0
           THEN probe' = ToolProbe("execute_weather_tool", tool_call, net, api_key, Unused,
                                   execute_weather_tool(tool_call, net, api_key, AnyFailure))
           ELSE \E up \in WeatherUpstreamReplies :
                    probe' = ToolProbe("execute_weather_tool", tool_call, net, api_key, up,
                                       execute_weather_tool(tool_call, net, api_key, up))
    /\ UNCHANGED <<run, task, tries, pc, xcom, mail, orchVars>>
    /\ UNCHANGED srvVars

\* the tool lists a caller starts from: none (a new list) or one that holds
\* another tool
StartLists == {<<>>, <<[type |-> "function", name |-> "other"]>>}

\* a call of register_news_tool or register_weather_tool, on a new list or
\* on the list the call before returned
Register ==
    /\ run = "idle"
    /\ probe = NoProbe \/ (probe.op = "register" /\ probe.calls < MaxRegistrations)
    /\ \E tool \in {"news", "weather"}, start \in StartLists :
           LET before == IF probe = NoProbe THEN start ELSE probe.tools
               calls == IF probe = NoProbe THEN 0 ELSE probe.calls
           IN  /\ probe = NoProbe \/ start = <<>>
               /\ probe' = [op |-> "register", tool |-> tool, before |-> before,
                            tools |-> IF tool = "news" THEN register_news_tool(before)
                                      ELSE register_weather_tool(before),
                            calls |-> calls + 1]
    /\ UNCHANGED <<run, task, tries, pc, xcom, mail, orchVars>>
    /\ UNCHANGED srvVars

(***************************************************************************)
(* src/mcp_server.py: run_server.  HTTPServer is socketserver.TCPServer    *)
(* without a threading or forking mix-in: serve_forever accepts one        *)
(* connection, runs its handler (do_GET, with its blocking requests.get to *)
(* the upstream) to the end and only then accepts the next one.            *)
(* Connections that arrive meanwhile wait in the listen queue.             *)
(***************************************************************************)
\* the requests the server's clients send
ClientRequests ==
    {[method |-> "GET", path |-> "/health", latitude |-> CoordNone,
      longitude |-> CoordNone, body |-> PostEmpty],
     [method |-> "GET", path |-> "/news", latitude |-> CoordNone,
      longitude |-> CoordNone, body |-> PostEmpty],
     [method |-> "GET", path |-> "/weather", latitude |-> CoordStr(55),
      longitude |-> CoordStr(37), body |-> PostEmpty]}

\* os.getenv('YANDEX_WEATHER_API_KEY') of the server process
ServerKey == Some(<<"k", "e", "y">>)

\* the upstream replies a request may meet
UpstreamFor(q) ==
    IF q.path \in {"/news", "/get_news"} THEN RunNewsUpstream ELSE ServerWeatherUpstream

\* the handler of q calls an upstream API
CallsUpstream(q) == Serve(q, ServerKey, AnyFailure, AnyFailure).upstreamCalls > 0

\* the connections opened so far
Connections == Len(served) + Len(backlog) + (IF serving.busy THEN 1 ELSE 0)

\* the record of an answered connection
ServedEntry(conn, q, up, r) ==
    [conn |-> conn, request |-> q, upstream |-> up, status |-> r.status, body |-> r.body]

\* a client connects and sends its request: the kernel queues the connection
ClientConnects ==
    /\ Connections < MaxConnections
    /\ \E q \in ClientRequests :
           backlog' = Append(backlog, [conn |-> Connections + 1, request |-> q])
    /\ UNCHANGED <<serving, served>>
    /\ UNCHANGED <<run, task, tries, pc, xcom, mail, orchVars, probe>>

\* serve_forever: the one thread accepts the next connection when the
\* handler of the previous one has finished
serve_forever ==
    /\ ~serving.busy
    /\ backlog # <<>>
    /\ serving' = [busy |-> TRUE, conn |-> Head(backlog).conn,
                   request |-> Head(backlog).request,
                   waiting |-> CallsUpstream(Head(backlog).request)]
    /\ backlog' = Tail(backlog)
    /\ UNCHANGED served
    /\ UNCHANGED <<run, task, tries, pc, xcom, mail, orchVars, probe>>

\* The handler of a request that needs no upstream answers.
handle_local ==
    /\ serving.busy /\ ~serving.waiting
    /\ served' = Append(served,
                        ServedEntry(serving.conn, serving.request, Unused,
                                    Serve(serving.request, ServerKey,
                                          AnyFailure, AnyFailure)))
    /\ serving' = Idle
    /\ UNCHANGED backlog
    /\ UNCHANGED <<run, task, tries, pc, xcom, mail, orchVars, probe>>

\* A faulty variant of handle_upstream: the handlers share one result buffer,
\* and a request is answered with what the buffer held before its own
\* upstream reply was put there.
handle_upstream_shared_buffer ==
    /\ serving.busy /\ serving.waiting
    /\ \E up \in UpstreamFor(serving.request) :
           LET own == Serve(serving.request, ServerKey, up, up)
               before == {i \in 1..Len(served) :
                              served[i].request = serving.request}
               last == CHOOSE i \in before : \A k \in before : k <= i
               buffer == IF before = {} THEN own
                         ELSE Serve(serving.request, ServerKey,
                                    served[last].upstream, served[last].upstream)
           IN  served' = Append(served,
                                ServedEntry(serving.conn, serving.request, up, buffer))
    /\ serving' = Idle
    /\ UNCHANGED backlog
    /\ UNCHANGED <<run, task, tries, pc, xcom, mail, orchVars, probe>>

\* The handler's requests.get returns (or times out) and the handler answers.
handle_upstream ==
    /\ serving.busy /\ serving.waiting
    /\ \E up \in UpstreamFor(serving.request) :
           served' = Append(served,
                            ServedEntry(serving.conn, serving.request, up,
                                        Serve(serving.request, ServerKey, up, up)))
    /\ serving' = Idle
    /\ UNCHANGED backlog
    /\ UNCHANGED <<run, task, tries, pc, xcom, mail, orchVars, probe>>

(***************************************************************************)
(* The system.                                                             *)
(***************************************************************************)
Next ==
    \/ StartRun
    \/ TaskSucceeded
    \/ TaskRetried
    \/ TaskFailed
    \/ get_news_task
    \/ summarize_start
    \/ first_reply
    \/ dispatch_tool
    \/ resend
    \/ resend_reply
    \/ finalize
    \/ prepare_email_content
    \/ send_summary_email
    \/ ServerNews
    \/ ServerWeather
    \/ ServerOther
    \/ CallNewsTool
    \/ CallWeatherTool
    \/ Register

Spec == Init /\ [][Next]_vars

(***************************************************************************)
(* The final checks on every text: summarize_news_with_gigachat stands at  *)
(* its checks of the final text (second attempt, one request answered      *)
(* without tool calls) with an arbitrary text of at most MaxTextLen words, *)
(* and the run goes on from there.                                         *)
(***************************************************************************)
FilterNews == [titles |-> <<"A", "B">>, total_count |-> 2]

FilterInit ==
    /\ run = "running"
    /\ task = "summarize_news"
    /\ tries = Retries
    /\ pc = "finalizing"
    /\ xcom = XComPush(<<>>, "news_data", FilterNews)
    /\ mail = <<>>
    /\ summary \in {NoneValue} \cup {Some(t) : t \in TextsUpTo(MaxTextLen)}
    /\ message = [content |-> summary, tool_calls |-> <<>>]
    /\ messages = <<[role |-> "user", content |-> Prompt(FilterNews.titles), name |-> ""]>>
    /\ chatLog = <<[messages |-> messages, tools |-> register_news_tool(<<>>),
                    credentials |-> <<"k", "e", "y">>,
                    outcome |-> "answered",
                    reply |-> [kind |-> "message", repr |-> <<>>, message |-> message]]>>
    /\ pending = <<>>
    /\ dispatchLog = <<>>
    /\ returned = NoneValue
    /\ probe = NoProbe
    /\ ServerInit

FilterNext ==
    \/ finalize
    \/ TaskSucceeded
    \/ TaskRetried
    \/ TaskFailed
    \/ prepare_email_content
    \/ send_summary_email

FilterSpec == FilterInit /\ [][FilterNext]_vars

(***************************************************************************)
(* The tool server under load: clients connect while it serves.            *)
(***************************************************************************)
ServerNext ==
    \/ ClientConnects
    \/ serve_forever
    \/ handle_local
    \/ handle_upstream

ServerSpec == Init /\ [][ServerNext]_vars

(***************************************************************************)
(* Properties.                                                             *)
(***************************************************************************)
Terminal == {"returned", "raised"}

\* t occurs in s in some letter case (t is lower case)
ContainsAnyCase(s, t) ==
    \E i \in 1..(Len(s) - Len(t) + 1) :
        \A k \in 1..Len(t) : LowerChar(s[i + k - 1]) = t[k]

\* s holds one of the four failure markers
HasMarker(s) ==
    \/ ContainsAnyCase(s, S_error)
    \/ ContainsAnyCase(s, S_oshibka_pri)
    \/ Contains(s, S_400)
    \/ Contains(s, S_401)

\* a text that is present, not blank and holds no failure marker
Clean(text) ==
    /\ ~text.isNone
    /\ \E i \in 1..Len(text.s) : text.s[i] \notin Whitespace
    /\ ~HasMarker(text.s)

\* a step of summarize_news_with_gigachat
OrchStep ==
    \/ summarize_start
    \/ first_reply
    \/ dispatch_tool
    \/ resend
    \/ resend_reply
    \/ finalize

\* C1: send_email is called only in a run whose summarize_news stored, under
\* the key 'summary', a text that is not empty and passes the failure filter;
\* a run that stored no summary sends no email.
C1_MailOnlyWithStoredSummary ==
    mail # <<>> => ("summary" \in DOMAIN xcom /\ Clean(xcom.summary))

\* C2: when the final text is None, empty or blank, the check of the final
\* text raises: nothing is returned and nothing is stored.
C2_EmptyTextRaises ==
    [][(task = "summarize_news" /\ pc = "finalizing" /\ IsEmptySummary(summary))
           => (pc' = "raised" /\ xcom' = xcom /\ returned' = NoneValue)]_vars

C2_Witness ==
    /\ task = "summarize_news" /\ pc = "raised"
    /\ chatLog # <<>> /\ chatLog[Len(chatLog)].outcome = "answered"
    /\ summary = Some(W_space)
    /\ "summary" \notin DOMAIN xcom
    /\ returned = NoneValue

\* the first reply asked for exactly one call, of 'news', the second reply is
\* a message with a clean content, and the function has ended
C3_Case ==
    /\ task = "summarize_news" /\ pc \in Terminal
    /\ Len(chatLog) = 2
    /\ chatLog[2].outcome = "answered" /\ chatLog[2].reply.kind = "message"
    /\ Len(chatLog[1].reply.message.tool_calls) = 1
    /\ chatLog[1].reply.message.tool_calls[1].hasFunction
    /\ chatLog[1].reply.message.tool_calls[1].name = "news"
    /\ Clean(chatLog[2].reply.message.content)

\* C3: when the first reply asks for exactly one tool call, of 'news', and the
\* reply to the resend has the clean content T, the function returns and
\* stores T, and the conversation it resent is the user prompt followed by
\* exactly one assistant message and one tool message, named 'news', whose
\* content is the JSON text of the ToolResult.
C3_OneToolCallRoundTrip ==
    C3_Case =>
        LET sent == chatLog[2].messages
            T == chatLog[2].reply.message.content
        IN  /\ pc = "returned"
            /\ returned = T
            /\ xcom.summary = T
            /\ Len(dispatchLog) = 1
            /\ Len(sent) = 3
            /\ chatLog[1].messages = <<sent[1]>>
            /\ sent[1].role = "user"
            /\ sent[2].role = "assistant"
            /\ sent[3].role = "tool"
            /\ sent[3].name = "news"
            /\ sent[3].content = JsonDumps(dispatchLog[1].did.result)
            /\ sent[3].content[1] \in {"{\"error\": ", "{\"titles\": ["}

C3_Witness ==
    /\ C3_Case
    /\ pc = "returned"
    /\ dispatchLog[1].did.httpRequests = 1
    /\ "titles" \in DOMAIN dispatchLog[1].did.result

\* the first reply is a message without tool calls whose content is clean
C4_Case ==
    /\ task = "summarize_news"
    /\ chatLog # <<>>
    /\ chatLog[1].outcome = "answered" /\ chatLog[1].reply.kind = "message"
    /\ chatLog[1].reply.message.tool_calls = <<>>
    /\ Clean(chatLog[1].reply.message.content)

\* C4: when the first reply has no tool call and a clean content C, the
\* function returns exactly C and stores C under 'summary', dispatches no
\* tool and sends exactly one request to the model.
C4_DirectAnswer ==
    C4_Case =>
        /\ Len(chatLog) = 1
        /\ dispatchLog = <<>>
        /\ pc \in {"finalizing", "returned"}
        /\ pc = "returned" =>
               /\ returned = chatLog[1].reply.message.content
               /\ xcom.summary = chatLog[1].reply.message.content

C4_Witness ==
    /\ C4_Case
    /\ pc = "returned"
    /\ returned = Some(W_space \o W_btc)

\* how far summarize_news_with_gigachat is from its end
OrchRank(at) ==
    CASE at = "start" -> 5
      [] at = "prompting" -> 4
      [] at = "tool_resolution" -> 3
      [] at = "resending" -> 2
      [] at = "finalizing" -> 1
      [] OTHER -> 0

Measure(at, left) == OrchRank(at) * (MaxToolCalls + 2) + Len(left)

\* the tool calls the first reply asked for
FirstToolCalls ==
    IF chatLog = <<>> THEN <<>> ELSE chatLog[1].reply.message.tool_calls

C5_Bounded ==
    task = "summarize_news" =>
        /\ Len(chatLog) <= 2
        /\ Len(dispatchLog) + Len(pending) <= Len(FirstToolCalls)
        /\ Len(chatLog) = 2 => pending = <<>>

C5_Progress ==
    (task = "summarize_news" /\ pc \notin Terminal) =>
        /\ Measure(pc', pending') < Measure(pc, pending)
        /\ Len(chatLog) = 2 => dispatchLog' = dispatchLog

C5_NeverStuck ==
    (run = "running" /\ task = "summarize_news" /\ pc \notin Terminal)
        => ENABLED OrchStep

\* C5: one invocation sends at most two requests to the model and makes at
\* most one pass over tool calls, those of the first reply: the tool calls of
\* the second reply are never dispatched and lead to no third request.  Every
\* step brings the invocation nearer to its end, and it is never stuck before
\* it has returned or raised.
C5_AtMostTwoRequests ==
    []C5_Bounded /\ [][C5_Progress]_vars /\ []C5_NeverStuck

C5_Witness ==
    /\ task = "summarize_news" /\ pc = "returned"
    /\ Len(chatLog) = 2
    /\ chatLog[2].reply.message.tool_calls # <<>>
    /\ Len(dispatchLog) = 1

\* C6: when a request to the model fails, or its response has no choices,
\* the invocation returns no summary and stores nothing.
C6_NoSummaryWithoutChoices ==
    (/\ task = "summarize_news"
     /\ \E i \in 1..Len(chatLog) :
            chatLog[i].outcome = "failed" \/ chatLog[i].reply.kind = "no_choices")
        => (pc # "returned" /\ returned = NoneValue /\ "summary" \notin DOMAIN xcom)

ToolOps == {"execute_news_tool", "execute_weather_tool"}

\* C7: nothing is tried again.  One request to the server makes at most one
\* call upstream, one tool dispatch makes at most one HTTP request, and a
\* failed request to the model is the last request of its invocation, which
\* has raised.
C7_NoRetry ==
    /\ probe.op = "request" => probe.upstreamCalls <= 1
    /\ probe.op \in ToolOps =>
           (probe.did.httpRequests <= 1 /\ probe.did.upstreamCalls <= 1)
    /\ \A i \in 1..Len(dispatchLog) :
           dispatchLog[i].did.httpRequests <= 1 /\ dispatchLog[i].did.upstreamCalls <= 1
    /\ \A i \in 1..Len(chatLog) :
           chatLog[i].outcome = "failed" => (i = Len(chatLog) /\ pc = "raised")

C7_Witness ==
    /\ probe.op = "request"
    /\ probe.request.path = "/news"
    /\ probe.upstream.kind = "timeout"
    /\ probe.upstreamCalls = 1
    /\ "error" \in DOMAIN probe.body

\* C8: a final text that holds 'error' or the Russian for 'error while' in
\* any letter case, or '400' or '401', makes the function raise and store
\* nothing; a text that is not blank and holds none of these is stored and
\* returned.
C8_FilterMarkers ==
    [][(task = "summarize_news" /\ pc = "finalizing" /\ ~summary.isNone) =>
           IF HasMarker(summary.s)
           THEN pc' = "raised" /\ xcom' = xcom /\ returned' = NoneValue
           ELSE IsEmptySummary(summary)
                \/ (pc' = "returned" /\ xcom'.summary = summary /\ returned' = summary)]_vars

C8_Witness ==
    /\ task = "summarize_news" /\ pc = "raised"
    /\ summary = Some(W_Oshibka \o W_pri)
    /\ "summary" \notin DOMAIN xcom

\* the dispatch `did` of tool_call answered that the function is unknown and
\* did nothing else
UnknownFunction(tool_call, did) ==
    /\ ~did.raised
    /\ DOMAIN did.result = {"error"}
    /\ did.result.error = <<"Neizvestnaya funkciya: ", NameOf(tool_call)>>
    /\ ~did.decoded
    /\ did.handlerCalls = 0
    /\ did.httpRequests = 0

\* C9: a dispatcher given a function name that is not its tool's returns an
\* error ToolResult that names the function; it decodes no arguments and
\* makes no HTTP request.
C9_UnknownTool ==
    /\ (probe.op = "execute_news_tool" /\ NameOf(probe.tool_call) # "news")
           => UnknownFunction(probe.tool_call, probe.did)
    /\ (probe.op = "execute_weather_tool" /\ NameOf(probe.tool_call) # "weather")
           => UnknownFunction(probe.tool_call, probe.did)
    /\ \A i \in 1..Len(dispatchLog) :
           dispatchLog[i].tool_call.name # "news"
               => UnknownFunction(dispatchLog[i].tool_call, dispatchLog[i].did)

C9_Witness ==
    /\ probe.op = "execute_news_tool"
    /\ NameOf(probe.tool_call) = "weather"
    /\ ArgumentsOf(probe.tool_call) = ArgStr("{bad")
    /\ probe.did.result.error = <<"Neizvestnaya funkciya: ", "weather">>

\* the argument strings that are no JSON
InvalidJson == {"{bad", ""}

\* tool_call names the tool `tool` and its arguments are a string that is no JSON
BadArguments(tool_call, tool) ==
    /\ NameOf(tool_call) = tool
    /\ ArgumentsOf(tool_call).t = "str"
    /\ ArgumentsOf(tool_call).text \in InvalidJson

\* the dispatch answered that the arguments do not parse and did nothing else
ParseFailure(did) ==
    /\ ~did.raised
    /\ DOMAIN did.result = {"error"}
    /\ did.result.error[1] = "Oshibka parsinga argumentov: "
    /\ did.handlerCalls = 0
    /\ did.httpRequests = 0

\* C10: a dispatcher given its tool's name and an argument string that is
\* not valid JSON returns a parse-failure error ToolResult; the handler is
\* not invoked and no HTTP request is made.
C10_InvalidArguments ==
    /\ (probe.op = "execute_news_tool" /\ BadArguments(probe.tool_call, "news"))
           => ParseFailure(probe.did)
    /\ (probe.op = "execute_weather_tool" /\ BadArguments(probe.tool_call, "weather"))
           => ParseFailure(probe.did)
    /\ \A i \in 1..Len(dispatchLog) :
           BadArguments(dispatchLog[i].tool_call, "news")
               => ParseFailure(dispatchLog[i].did)

C10_Witness ==
    /\ probe.op = "execute_weather_tool"
    /\ BadArguments(probe.tool_call, "weather")
    /\ probe.did.decoded
    /\ probe.did.httpRequests = 0

\* C11: a dispatcher lets no exception escape, whatever the name and the
\* arguments of the tool call are.
C11_DispatchNeverRaises ==
    probe.op \in ToolOps => ~probe.did.raised

\* every tool name occurs at most once in the list
OncePerName(tools_list) ==
    \A i, j \in 1..Len(tools_list) :
        tools_list[i].name = tools_list[j].name => i = j

\* C12: after any sequence of registrations a tool list holds at most one
\* descriptor per tool name; registering a name that is present leaves the
\* list as it was, registering one that is absent appends exactly one
\* descriptor of it at the end.
C12_RegisterIdempotent ==
    probe.op = "register" =>
        /\ OncePerName(probe.tools)
        /\ IF \E i \in 1..Len(probe.before) : probe.before[i].name = probe.tool
           THEN probe.tools = probe.before
           ELSE /\ Len(probe.tools) = Len(probe.before) + 1
                /\ SubSeq(probe.tools, 1, Len(probe.before)) = probe.before
                /\ probe.tools[Len(probe.tools)].name = probe.tool
                /\ probe.tools[Len(probe.tools)].type = "function"

C12_Witness ==
    /\ probe.op = "register"
    /\ probe.calls = 3
    /\ probe.tool = "news"
    /\ Len(probe.before) = 3
    /\ probe.tools = probe.before


\* the coordinates a request carries
LatitudeOf(q) == IF q.method = "GET" THEN q.latitude ELSE q.body.latitude
LongitudeOf(q) == IF q.method = "GET" THEN q.longitude ELSE q.body.longitude

\* x is a number, or the text of one
Numeric(x) == x.t \in {"num", "bigint"} \/ (x.t = "str" /\ x.ok)

Outside(x, lo, hi) == Numeric(x) /\ (x.n < lo \/ hi < x.n)

WeatherPaths == {"/weather", "/get_weather"}
NewsPaths == {"/news", "/get_news"}

\* the request recorded is one to a weather route that reached the routing
WeatherRequest ==
    /\ probe.op = "request"
    /\ probe.request.path \in WeatherPaths
    /\ probe.request.method = "POST" =>
           (probe.request.body.kind # "invalid" /\ probe.request.body.isDict)

\* C13: a weather request whose latitude is outside [-90, 90] or whose
\* longitude is outside [-180, 180] is answered with an error payload and
\* HTTP 400, and no call is made to the upstream weather API.
C13_OutOfRangeRejected ==
    (/\ WeatherRequest
     /\ \/ Outside(LatitudeOf(probe.request), -90, 90)
        \/ Outside(LongitudeOf(probe.request), -180, 180))
        => /\ "error" \in DOMAIN probe.body
           /\ probe.status = 400
           /\ probe.upstreamCalls = 0

\* the key is unset, empty or blank
BlankKey(k) == k.isNone \/ \A i \in 1..Len(k.s) : k.s[i] \in Whitespace

\* both coordinates are numbers in range
ValidCoordinates(q) ==
    /\ Numeric(LatitudeOf(q)) /\ ~Outside(LatitudeOf(q), -90, 90)
    /\ Numeric(LongitudeOf(q)) /\ ~Outside(LongitudeOf(q), -180, 180)

ConfigurationErrors == {<<"API klyuch ne nastroen">>, <<"API klyuch pustoj">>}

\* C14: no upstream is called with a blank credential.  With
\* YANDEX_WEATHER_API_KEY unset, empty or blank a weather request makes no
\* upstream call and is answered with an error, the configuration error when
\* its coordinates are valid; and every request sent to the model was sent by
\* a client whose credential is not empty and holds no whitespace.
C14_NoBlankCredential ==
    /\ (WeatherRequest /\ BlankKey(probe.api_key)) =>
           /\ probe.upstreamCalls = 0
           /\ "error" \in DOMAIN probe.body
           /\ ValidCoordinates(probe.request) =>
                  (probe.status = 400 /\ probe.body.error \in ConfigurationErrors)
    /\ \A i \in 1..Len(chatLog) :
           /\ chatLog[i].credentials # <<>>
           /\ \A k \in 1..Len(chatLog[i].credentials) :
                  chatLog[i].credentials[k] \notin Whitespace

C14_Witness ==
    /\ WeatherRequest
    /\ probe.api_key = Some(<<" ", "\n">>)
    /\ ValidCoordinates(probe.request)
    /\ probe.body.error = <<"API klyuch pustoj">>
    /\ probe.upstreamCalls = 0


\* the weather API answered 200 with a JSON object
WeatherAnswered ==
    /\ WeatherRequest
    /\ probe.upstreamCalls = 1
    /\ probe.upstream.kind = "response" /\ probe.upstream.status = 200
    /\ probe.upstream.body.json = "dict"

\* the success payload that carries the four fields of vals
Fields(vals) ==
    [temperature |-> vals.temp, condition |-> vals.condition,
     wind_speed |-> vals.wind_speed, humidity |-> vals.humidity]

\* the response is what the extraction from vals must give: the four fields,
\* or the error with the raw upstream body when all four are null
ExtractedFrom(vals) ==
    IF AllNone(vals)
    THEN /\ "error" \in DOMAIN probe.body
         /\ probe.body.raw_response = probe.upstream.body
         /\ probe.status = 400
    ELSE probe.body = Fields(vals) /\ probe.status = 200

\* C15, as stated: the four fields are read from `fact` whenever the
\* upstream body has an object under that key.
C15_FactReadWhenPresent ==
    (WeatherAnswered /\ probe.upstream.body.fact.p \in {"empty", "dict"})
        => ExtractedFrom(probe.upstream.body.fact.vals)

\* C15: on an upstream 200 the four fields are read from `fact` when it is
\* an object that is not empty, and from forecasts[0].parts.day when `fact`
\* is absent, null or an empty object; when all four are null the response is
\* an error that carries the raw upstream body, so a success payload has at
\* least one field that is not null.
C15_WeatherExtraction ==
    WeatherAnswered =>
        LET body == probe.upstream.body
        IN  /\ body.fact.p = "dict" => ExtractedFrom(body.fact.vals)
            /\ (body.fact.p \in {"absent", "null", "empty"}
                    /\ body.forecasts.p = "first_day")
                   => ExtractedFrom(body.forecasts.vals)
            /\ "error" \notin DOMAIN probe.body =>
                   \/ ~probe.body.temperature.isNone
                   \/ ~probe.body.condition.isNone
                   \/ ~probe.body.wind_speed.isNone
                   \/ ~probe.body.humidity.isNone

C15_Witness ==
    /\ WeatherAnswered
    /\ probe.upstream.body.fact.p = "empty"
    /\ probe.upstream.body.forecasts.p = "first_day"
    /\ probe.body = Fields(AllFields)
    /\ probe.status = 200

\* the news API answered 200 with an object whose `results` is an array
NewsAnswered ==
    /\ probe.op = "request"
    /\ probe.request.path \in NewsPaths
    /\ probe.upstreamCalls = 1
    /\ probe.upstream.kind = "response" /\ probe.upstream.status = 200
    /\ probe.upstream.body.json = "dict"
    /\ probe.upstream.body.hasResults /\ probe.upstream.body.resultsIsList

\* the titles of the objects of results that have the key `title`, in order
TitlesOf(results) ==
    LET titled == SelectSeq(results, LAMBDA a : a.kind = "dict" /\ a.hasTitle)
    IN  [i \in 1..Len(titled) |-> titled[i].title]

TitlesReturned ==
    /\ probe.status = 200
    /\ DOMAIN probe.body = {"titles", "total_count"}
    /\ probe.body.titles = TitlesOf(probe.upstream.body.results)
    /\ probe.body.total_count = Len(probe.body.titles)

\* C16, as stated: whatever the items of the `results` array are, the
\* response is HTTP 200 with the titles of the items that have a title.
C16_TitlesOfAnyArray ==
    NewsAnswered => TitlesReturned

\* C16: on an upstream 200 whose `results` is an array of objects, the
\* response is HTTP 200 with `titles` the titles of exactly the items that
\* have the key `title`, in upstream order, and `total_count` their number;
\* an item that is null makes the response an error without titles.
C16_NewsExtraction ==
    NewsAnswered =>
        LET results == probe.upstream.body.results
        IN  /\ (\A i \in 1..Len(results) : results[i].kind = "dict") => TitlesReturned
            /\ (\E i \in 1..Len(results) : results[i].kind = "null") =>
                   /\ probe.status = 400
                   /\ "error" \in DOMAIN probe.body
                   /\ "titles" \notin DOMAIN probe.body

C16_Witness ==
    /\ NewsAnswered
    /\ Len(probe.upstream.body.results) = 3
    /\ probe.upstream.body.results[3] = [kind |-> "dict", hasTitle |-> FALSE, title |-> ""]
    /\ probe.status = 200
    /\ probe.body.titles = <<"A", "B">>
    /\ probe.body.total_count = 2


PrimaryFields ==
    {"titles", "total_count", "temperature", "condition", "wind_speed", "humidity"}

\* a payload with an error holds no primary field
Exclusive(payload) ==
    "error" \in DOMAIN payload => DOMAIN payload \cap PrimaryFields = {}

\* the fetch from the news API failed: the call raised, the status is not
\* 200, the body is no JSON object, or the lookup of an item's title raises
NewsFetchFailed(up) ==
    \/ up.kind # "response"
    \/ up.status # 200
    \/ up.body.json # "dict"
    \/ /\ up.body.hasResults /\ up.body.resultsIsList
       /\ \E i \in 1..Len(up.body.results) :
              \/ up.body.results[i].kind = "null"
              \/ up.body.results[i].kind = "str" /\ up.body.results[i].hasTitle

\* a request to a news route that called the news API
NewsFetched ==
    /\ probe.op = "request"
    /\ probe.request.path \in NewsPaths
    /\ probe.upstreamCalls = 1

\* C17: no payload of the /news and /weather handlers or of the tool
\* dispatchers holds both `error` and a primary result field; a news fetch
\* that failed is answered with an error and never with titles.
C17_ErrorExcludesResult ==
    /\ probe.op = "request" => Exclusive(probe.body)
    /\ probe.op \in ToolOps => Exclusive(probe.did.result)
    /\ \A i \in 1..Len(dispatchLog) : Exclusive(dispatchLog[i].did.result)
    /\ (NewsFetched /\ NewsFetchFailed(probe.upstream)) =>
           ("error" \in DOMAIN probe.body /\ "titles" \notin DOMAIN probe.body)

C17_Witness ==
    /\ NewsAnswered
    /\ probe.upstream.body.results =
           <<[kind |-> "dict", hasTitle |-> TRUE, title |-> "A"],
             [kind |-> "null", hasTitle |-> FALSE, title |-> ""]>>
    /\ DOMAIN probe.body = {"error", "raw_response"}

\* C18: a news request is answered with HTTP 400 when the news API answers
\* with a status other than 200, and with HTTP 500 when it answers 200 with
\* a body that does not parse.
C18_NewsFailureStatus ==
    (NewsFetched /\ probe.upstream.kind = "response") =>
        /\ probe.upstream.status # 200 => probe.status = 400
        /\ (probe.upstream.status = 200 /\ probe.upstream.body.json = "invalid")
               => probe.status = 500

\* a request to a route its method knows
KnownRequest ==
    /\ probe.op = "request"
    /\ \/ probe.request.path \in NewsPaths \cup WeatherPaths
       \/ probe.request.method = "GET" /\ probe.request.path \in {"/", "/health"}

\* C19: on the known routes the status is 200 exactly when the body holds no
\* `error`, and every error payload a handler returned is answered with 400
\* (the other error bodies are those of the servers' own exception handler).
C19_StatusMatchesBody ==
    KnownRequest =>
        /\ probe.status = 200 <=> "error" \notin DOMAIN probe.body
        /\ ("error" \in DOMAIN probe.body
                /\ probe.body.error[1] # "Vnutrennyaya oshibka servera: ")
               => probe.status = 400

C19_Witness ==
    /\ WeatherRequest
    /\ probe.upstreamCalls = 1
    /\ probe.upstream.kind = "response" /\ probe.upstream.status = 403
    /\ "error" \in DOMAIN probe.body
    /\ probe.status = 400

\* C20: a request to a path that is no route, whatever its method and body
\* are, is answered with HTTP 404 and a body with `error` and
\* `available_endpoints`, and no upstream is called.
C20_UnknownPath ==
    (probe.op = "request" /\ probe.request.path = "/other") =>
        /\ probe.status = 404
        /\ {"error", "available_endpoints"} \subseteq DOMAIN probe.body
        /\ probe.upstreamCalls = 0

\* a GET of the health route
HealthRequest ==
    /\ probe.op = "request"
    /\ probe.request.method = "GET"
    /\ probe.request.path \in {"/", "/health"}

\* C21: GET /health is answered with HTTP 200 and the one static listing
\* (status "ok", the tools, the endpoints), whatever credential is configured
\* and whatever the upstream APIs would answer, and no upstream is called.
C21_HealthStatic ==
    HealthRequest =>
        /\ probe.status = 200
        /\ probe.body = HealthBody
        /\ probe.body.status = "ok"
        /\ probe.body.tools = <<"get_news", "get_weather">>
        /\ DOMAIN probe.body = {"status", "server", "tools", "endpoints"}
        /\ probe.upstreamCalls = 0

C21_Witness ==
    /\ HealthRequest
    /\ probe.request.path = "/health"
    /\ probe.api_key = NoneValue
    /\ probe.status = 200
    /\ probe.body.status = "ok"

\* the ToolResults get_news_titles may hand to get_news_task
NewsToolResults ==
    {get_news_titles(net, up).result : net \in RunNetOutcomes, up \in RunNewsUpstream}

\* a step of get_news_task
GetNewsStep == task = "get_news" /\ pc = "start" /\ pc' # pc

\* C22: get_news_task succeeds and stores the ToolResult of get_news_titles
\* under 'news_data' exactly when that ToolResult has no `error` key;
\* otherwise it raises and stores nothing, and summarize_news only ever
\* starts with a stored news_data that has no `error` key.
C22_ErrorKeyDecides ==
    /\ [][GetNewsStep =>
            \E news_data \in NewsToolResults :
                /\ pc' = "returned" <=> "error" \notin DOMAIN news_data
                /\ pc' = "raised" <=> "error" \in DOMAIN news_data
                /\ pc' = "returned" => xcom' = [x \in {"news_data"} |-> news_data]
                /\ pc' = "raised" => xcom' = xcom /\ "news_data" \notin DOMAIN xcom]_vars
    /\ [](task = "summarize_news" =>
            /\ "news_data" \in DOMAIN xcom
            /\ "error" \notin DOMAIN xcom.news_data)

C22_Witness ==
    /\ task = "get_news" /\ pc = "raised" /\ tries = Retries
    /\ xcom = <<>>
    /\ \E news_data \in NewsToolResults : "error" \in DOMAIN news_data
    /\ \E news_data \in NewsToolResults : "error" \notin DOMAIN news_data

\* the first reply carried tool calls and the invocation has its final text
ToolTurnAnswered ==
    /\ task = "summarize_news"
    /\ FirstToolCalls # <<>>
    /\ pc \in {"finalizing", "returned"}

\* C23: when the first reply carries tool calls, the conversation is resent
\* exactly once, with the tool list of the first request, and the final text
\* is the content of the reply to the resend, never that of the first reply.
C23_FinalFromResendReply ==
    ToolTurnAnswered =>
        /\ Len(chatLog) = 2
        /\ chatLog[2].tools = chatLog[1].tools
        /\ chatLog[2].outcome = "answered"
        /\ chatLog[2].reply.kind = "message"
        /\ summary = chatLog[2].reply.message.content

\* the tool calls of the first reply that the loop dispatches (those with a
\* `function`), as the dicts it passes to execute_news_tool
ListedCalls ==
    LET withFunction == SelectSeq(FirstToolCalls, LAMBDA c : c.hasFunction)
    IN  [i \in 1..Len(withFunction) |->
            [name |-> withFunction[i].name, arguments |-> withFunction[i].arguments]]

\* the i-th dispatch is the i-th listed call and, once it has returned, its
\* result is the i-th tool message of the conversation `sent`
InListedOrder(sent) ==
    /\ Len(dispatchLog) <= Len(ListedCalls)
    /\ \A i \in 1..Len(dispatchLog) :
           /\ dispatchLog[i].tool_call = ListedCalls[i]
           /\ ~dispatchLog[i].did.raised =>
                  /\ Len(sent) >= 1 + 2 * i
                  /\ sent[2 * i].role = "assistant"
                  /\ sent[1 + 2 * i].role = "tool"
                  /\ sent[1 + 2 * i].name = ListedCalls[i].name
                  /\ sent[1 + 2 * i].content = JsonDumps(dispatchLog[i].did.result)

C24_Order ==
    task = "summarize_news" =>
        /\ InListedOrder(messages)
        /\ Len(chatLog) = 2 =>
               /\ pending = <<>>
               /\ Len(dispatchLog) = Len(ListedCalls)
               /\ InListedOrder(chatLog[2].messages)
               /\ Len(chatLog[2].messages) = 1 + 2 * Len(ListedCalls)

\* a step dispatches at most one tool call, the first one not yet resolved,
\* and no tool call is dispatched once the conversation has been resent
C24_OneAtATime ==
    task = "summarize_news" =>
        /\ Len(dispatchLog') <= Len(dispatchLog) + 1
        /\ Len(dispatchLog') = Len(dispatchLog) + 1 =>
               /\ pending # <<>>
               /\ dispatchLog'[Len(dispatchLog')].tool_call.name = Head(pending).name
               /\ Len(chatLog) = 1 /\ chatLog' = chatLog
        /\ Len(chatLog') > Len(chatLog) /\ chatLog # <<>> => pending = <<>>

\* C24: the tool calls of one reply are dispatched one at a time in the order
\* the model listed them, their tool messages stand in the resent
\* conversation in that order, and the one resend is sent only when all of
\* them have been resolved.
C24_SequentialDispatch == []C24_Order /\ [][C24_OneAtATime]_vars

C24_Witness ==
    /\ task = "summarize_news" /\ pc = "returned"
    /\ Len(chatLog) = 2
    /\ Len(dispatchLog) = 2
    /\ dispatchLog[1].tool_call.name = "weather"
    /\ dispatchLog[2].tool_call.name = "news"
    /\ chatLog[2].messages[3].name = "weather"
    /\ chatLog[2].messages[5].name = "news"

\* the first of the five checks, in the order (1) present, (2) numeric,
\* (3) latitude range, (4) longitude range, (5) credential, that the request
\* q with the key k configured does not pass; 0 when it passes them all
FirstFailingCheck(q, k) ==
    IF LatitudeOf(q).t = "none" \/ LongitudeOf(q).t = "none" THEN 1
    ELSE IF ~Numeric(LatitudeOf(q)) \/ ~Numeric(LongitudeOf(q)) THEN 2
    ELSE IF Outside(LatitudeOf(q), -90, 90) THEN 3
    ELSE IF Outside(LongitudeOf(q), -180, 180) THEN 4
    ELSE IF BlankKey(k) THEN 5
    ELSE 0

\* the errors of the five checks
ValidationErrors ==
    <<{<<"Neobhodimo ukazat' latitude i longitude">>},
      {<<"Koordinaty dolzhny byt' chislami">>},
      {<<"Shirota dolzhna byt' v diapazone ot -90 do 90">>},
      {<<"Dolgota dolzhna byt' v diapazone ot -180 do 180">>},
      ConfigurationErrors>>

\* the response is the 400 of the check that fails first, or, when no check
\* fails, none of their errors
AnsweredByFirstFailing ==
    LET failing == FirstFailingCheck(probe.request, probe.api_key)
    IN  IF failing = 0
        THEN /\ probe.upstreamCalls = 1
             /\ "error" \in DOMAIN probe.body =>
                    \A i \in 1..5 : probe.body.error \notin ValidationErrors[i]
        ELSE /\ probe.status = 400
             /\ "error" \in DOMAIN probe.body
             /\ probe.body.error \in ValidationErrors[failing]
             /\ probe.upstreamCalls = 0

\* the conversion of the coordinates left the handler with an OverflowError
ConversionOverflows(q) ==
    /\ LatitudeOf(q).t # "none" /\ LongitudeOf(q).t # "none"
    /\ \/ LatitudeOf(q).t = "bigint"
       \/ Numeric(LatitudeOf(q)) /\ LongitudeOf(q).t = "bigint"

C26_MalformedInputIsNoFault ==
    (/\ probe.op = "request"
     /\ probe.request.method = "POST"
     /\ probe.request.path \in WeatherPaths)
        => probe.status \in {200, 400}

IsPrefix(a, b) == Len(a) <= Len(b) /\ SubSeq(b, 1, Len(a)) = a

\* the conversation of the invocation that has sent its first request
C27_Conversation ==
    (task = "summarize_news" /\ chatLog # <<>>) =>
        /\ messages # <<>>
        /\ messages[1].role = "user"
        /\ messages[1].content = Prompt(xcom.news_data.titles)
        /\ chatLog[1].messages = <<messages[1]>>
        /\ IsPrefix(chatLog[1].messages, messages)
        /\ Len(chatLog) = 2 =>
               /\ IsPrefix(chatLog[1].messages, chatLog[2].messages)
               /\ chatLog[2].messages = messages
               /\ Len(chatLog[2].messages) = 1 + 2 * Len(dispatchLog)

\* a step of the invocation only appends to the conversation
C27_Appends ==
    (task = "summarize_news" /\ pc \notin Terminal /\ messages # <<>>) =>
        /\ IsPrefix(messages, messages')
        /\ messages'[1] = messages[1]

\* C27: within one invocation the conversation is append-only: the user
\* prompt stays its first message, unmodified, no message is removed or
\* reordered, the messages of the first request are a prefix of those of the
\* resend, and the resend carries exactly 1 + 2k messages for k dispatched
\* tool calls.
C27_AppendOnly == []C27_Conversation /\ [][C27_Appends]_vars

C27_Witness ==
    /\ task = "summarize_news" /\ pc = "returned"
    /\ Len(chatLog) = 2
    /\ Len(dispatchLog) = 2
    /\ Len(chatLog[2].messages) = 5
    /\ Len(chatLog[1].messages) = 1

\* a handler is waiting for its upstream while a connection waits to be
\* accepted
WaitingWhileQueued == serving.busy /\ serving.waiting /\ backlog # <<>>

\* C28: the server serves inbound connections on separate workers: while one
\* request waits for its upstream call to return, the next inbound connection
\* can be accepted (and then answered) without waiting for the first.
C28_AcceptsWhileWaiting == WaitingWhileQueued => ENABLED serve_forever

\* the answered request with its response, without its place in the order
Exchange(e) == [request |-> e.request, upstream |-> e.upstream,
                status |-> e.status, body |-> e.body]

C30_ChecksAgree ==
    "summary" \in DOMAIN xcom =>
        /\ PrepareFault(xcom.summary) = ""
        /\ "email_subject" \in DOMAIN xcom => xcom.email_subject = SUMMARY_SUBJECT

=============================================================================
